---- MODULE Spec2Model ----
(***************************************************************************)
(* A model of the rule-based conversational agent: AIAgent                 *)
(* (src/agent/base.py), the location parser and the WeatherService         *)
(* (src/utils/weather.py), the NewsService (src/utils/news.py), the input  *)
(* validators (src/utils/validators.py) and the chat route of the web      *)
(* interface (src/interfaces/web.py).                                      *)
(*                                                                         *)
(* Python strings are sequences of one-character strings, so that          *)
(* lower(), strip(), substring tests and the regular expressions of the    *)
(* source are computed rather than assumed.  None is the value None.       *)
(***************************************************************************)
EXTENDS Integers, Sequences, FiniteSets, TLC

(***************************************************************************)
(* Python string primitives                                                *)
(***************************************************************************)
Whitespace == {" ", "\t", "\n"}

\* the lower-case letter of an upper-case letter, and the other way round
LowerOf ==
    [A |-> "a", B |-> "b", C |-> "c", D |-> "d", E |-> "e", F |-> "f", G |-> "g",
     H |-> "h", I |-> "i", J |-> "j", K |-> "k", L |-> "l", M |-> "m", N |-> "n",
     O |-> "o", P |-> "p", Q |-> "q", R |-> "r", S |-> "s", T |-> "t", U |-> "u",
     V |-> "v", W |-> "w", X |-> "x", Y |-> "y", Z |-> "z"]

UpperOf ==
    [a |-> "A", b |-> "B", c |-> "C", d |-> "D", e |-> "E", f |-> "F", g |-> "G",
     h |-> "H", i |-> "I", j |-> "J", k |-> "K", l |-> "L", m |-> "M", n |-> "N",
     o |-> "O", p |-> "P", q |-> "Q", r |-> "R", s |-> "S", t |-> "T", u |-> "U",
     v |-> "V", w |-> "W", x |-> "X", y |-> "Y", z |-> "Z"]

LowerChar(c) == IF c \in DOMAIN LowerOf THEN LowerOf[c] ELSE c

UpperChar(c) == IF c \in DOMAIN UpperOf THEN UpperOf[c] ELSE c

\* str.lower()
Lower(s) == << >> \o [i \in 1..Len(s) |-> LowerChar(s[i])]

\* s[p:] begins with t (p is 1-based)
StartsWithAt(s, p, t) ==
    /\ p >= 1
    /\ p + Len(t) - 1 <= Len(s)
    /\ \A k \in 1..Len(t) : s[p + k - 1] = t[k]

\* str.startswith
StartsWith(s, t) == StartsWithAt(s, 1, t)

\* t in s
Contains(s, t) == \E p \in 1..(Len(s) - Len(t) + 1) : StartsWithAt(s, p, t)

\* s[p:] from the 1-based position p
From(s, p) == SubSeq(s, p, Len(s))

\* the first position at or after p that holds no whitespace (Len(s)+1 at the end)
RunEnd(s, p) ==
    IF \E q \in p..Len(s) : s[q] \notin Whitespace
    THEN CHOOSE q \in p..Len(s) :
            /\ s[q] \notin Whitespace
            /\ \A r \in p..(q - 1) : s[r] \in Whitespace
    ELSE Len(s) + 1

\* str.lstrip(), str.rstrip(), str.strip()
LStrip(s) == From(s, RunEnd(s, 1))

RStripSet(s, chars) ==
    IF \E q \in 1..Len(s) : s[q] \notin chars
    THEN SubSeq(s, 1, CHOOSE q \in 1..Len(s) :
                        /\ s[q] \notin chars
                        /\ \A r \in (q + 1)..Len(s) : s[r] \in chars)
    ELSE << >>

Strip(s) == RStripSet(LStrip(s), Whitespace)

\* re.sub(r',\s+', ',', s)
RECURSIVE CollapseCommaSpace(_)
CollapseCommaSpace(s) ==
    IF s = << >> THEN << >>
    ELSE IF s[1] = "," /\ Len(s) >= 2 /\ s[2] \in Whitespace
         THEN <<",">> \o CollapseCommaSpace(From(s, RunEnd(s, 2)))
         ELSE <<s[1]>> \o CollapseCommaSpace(Tail(s))

\* str.split(sep) for a one-character separator
RECURSIVE Split(_, _)
Split(s, sep) ==
    IF \E q \in 1..Len(s) : s[q] = sep
    THEN LET q == CHOOSE q \in 1..Len(s) :
                     s[q] = sep /\ \A r \in 1..(q - 1) : s[r] # sep
         IN  <<SubSeq(s, 1, q - 1)>> \o Split(From(s, q + 1), sep)
    ELSE <<s>>

\* str.split() on runs of whitespace
RECURSIVE SplitWords(_)
SplitWords(s) ==
    LET t == LStrip(s)
    IN  IF t = << >> THEN << >>
        ELSE IF \E q \in 1..Len(t) : t[q] \in Whitespace
             THEN LET q == CHOOSE q \in 1..Len(t) :
                              t[q] \in Whitespace /\ \A r \in 1..(q - 1) : t[r] \notin Whitespace
                  IN  <<SubSeq(t, 1, q - 1)>> \o SplitWords(From(t, q))
             ELSE <<t>>

\* sep.join(parts)
RECURSIVE Join(_, _)
Join(parts, sep) ==
    IF parts = << >> THEN << >>
    ELSE IF Len(parts) = 1 THEN parts[1]
         ELSE parts[1] \o sep \o Join(Tail(parts), sep)

\* str.capitalize()
Capitalize(w) ==
    << >> \o [i \in 1..Len(w) |-> IF i = 1 THEN UpperChar(w[i]) ELSE LowerChar(w[i])]

(***************************************************************************)
(* Values that are not character strings                                   *)
(***************************************************************************)
\* None, and a value of another type than str (an int, say): neither is a
\* sequence of characters, since every character is a string of length one.
None == <<"None">>
NotAString == <<"int">>

IsStr(x) == x # None /\ x # NotAString

\* None where a dict is expected, which is not a record of the dict's keys
NoDict == [isNone |-> TRUE]

\* Python truthiness of an Optional[str]
Truthy(x) == x # None /\ x # << >>

Min(S) == CHOOSE x \in S : \A y \in S : x <= y
Max(S) == CHOOSE x \in S : \A y \in S : x >= y

(***************************************************************************)
(* Words the source matches on                                             *)
(***************************************************************************)
K_weather == <<"w","e","a","t","h","e","r">>
K_joke == <<"j","o","k","e">>

\* the first "\n" at or after p, or Len(s)+1: "." never matches a newline
LineEnd(s, p) ==
    IF \E q \in p..Len(s) : s[q] = "\n"
    THEN Min({q \in p..Len(s) : s[q] = "\n"})
    ELSE Len(s) + 1

\* where "$" matches: at the end, and before a newline that ends the string
DollarAt(s, q) == q = Len(s) + 1 \/ (q = Len(s) /\ s[q] = "\n")

\* \s+(.+) tried at p: the start of the group, or 0 when it does not match.
\* \s+ is greedy and gives back whitespace only while "." has nothing to take.
WsThenSome(s, p) ==
    LET n == RunEnd(s, p) - p
        ok == {k \in 1..n : p + k <= Len(s) /\ s[p + k] # "\n"}
    IN  IF ok = {} THEN 0 ELSE p + Max(ok)

(***************************************************************************)
(* process_message: the follow-up rewrite (src/agent/base.py:153-168)      *)
(***************************************************************************)
FollowUpPhrases ==
    << <<"h","o","w"," ","a","b","o","u","t">>, <<"w","h","a","t"," ","a","b","o","u","t">>, <<"a","n","d"," ","i","n">>, <<"a","n","d"," ","a","t">>, <<"a","n","d"," ","f","o","r">>,
       <<"h","o","w","'","s">>, <<"w","h","a","t","'","s"," ","t","h","e"," ","w","e","a","t","h","e","r"," ","i","n">>, <<"w","e","a","t","h","e","r"," ","i","n">> >>

is_follow_up(message_lower) ==
    \E i \in 1..Len(FollowUpPhrases) : Contains(message_lower, FollowUpPhrases[i])

\* re.search(r'(?:how about|...|weather in)\s+(.+)', message_lower): the
\* positions where the expression matches; the leftmost one is the match.
FollowUpStarts(ml) ==
    {p \in 1..Len(ml) :
        \E i \in 1..Len(FollowUpPhrases) :
            /\ StartsWithAt(ml, p, FollowUpPhrases[i])
            /\ WsThenSome(ml, p + Len(FollowUpPhrases[i])) # 0}

\* location_match.group(1)
FollowUpGroup(ml) ==
    LET p == Min(FollowUpStarts(ml))
        i == Min({j \in 1..Len(FollowUpPhrases) :
                    /\ StartsWithAt(ml, p, FollowUpPhrases[j])
                    /\ WsThenSome(ml, p + Len(FollowUpPhrases[j])) # 0})
        g == WsThenSome(ml, p + Len(FollowUpPhrases[i]))
    IN  SubSeq(ml, g, LineEnd(ml, g) - 1)

\* context and context.get('type') == 'weather'
ContextIsWeather(context) == "type" \in DOMAIN context /\ context.type = "weather"

\* the value of the local variable `message` after lines 153-168
RewriteFollowUp(message, context) ==
    LET message_lower == Lower(message)
    IN  IF /\ is_follow_up(message_lower)
           /\ ContextIsWeather(context)
           /\ FollowUpStarts(message_lower) # {}
        THEN <<"w","h","a","t","'","s"," ","t","h","e"," ","w","e","a","t","h","e","r"," ","i","n"," ">> \o Strip(FollowUpGroup(message_lower))
        ELSE message

(***************************************************************************)
(* parse_location_from_message (src/utils/weather.py:46-95)                *)
(***************************************************************************)
Prepositions == << <<"i","n">>, <<"a","t">>, <<"f","o","r">> >>

\* weather\s+(?:in|at|for) tried at w: the position after the preposition,
\* or 0.  The preposition must be followed by whitespace (the next \s+).
WeatherPrep(s, w) ==
    IF ~StartsWithAt(s, w, K_weather) THEN 0
    ELSE LET a == w + Len(K_weather)
             b == RunEnd(s, a)
             hit == {i \in 1..3 :
                        /\ b > a
                        /\ StartsWithAt(s, b, Prepositions[i])
                        /\ b + Len(Prepositions[i]) <= Len(s)
                        /\ s[b + Len(Prepositions[i])] \in Whitespace}
         IN  IF hit = {} THEN 0 ELSE b + Len(Prepositions[Min(hit)])

\* (?:\s+(?:weather|joke)|[?!]|$) tried at q
Terminator(s, q) ==
    \/ DollarAt(s, q)
    \/ /\ q <= Len(s)
       /\ \/ s[q] \in {"?", "!"}
          \/ /\ s[q] \in Whitespace
             /\ \/ StartsWithAt(s, RunEnd(s, q), K_weather)
                \/ StartsWithAt(s, RunEnd(s, q), K_joke)

\* \s+([^?!]*?)(?:\s+(?:weather|joke)|[?!]|$) from the position c after the
\* preposition: the lazy group ends at the first terminator
LazyGroupFrom(s, c) ==
    LET g == RunEnd(s, c)
        q == Min({r \in g..(Len(s) + 1) : Terminator(s, r)})
    IN  SubSeq(s, g, q - 1)

\* pattern 2: weather\s+(?:in|at|for)\s+([^?!]*?)(?:\s+(?:weather|joke)|[?!]|$)
Pattern2Starts(s) == {w \in 1..Len(s) : WeatherPrep(s, w) # 0}

Pattern2(s) ==
    IF Pattern2Starts(s) = {} THEN None
    ELSE LazyGroupFrom(s, WeatherPrep(s, Min(Pattern2Starts(s))))

\* pattern 1: (?:what'?s|what|tell|show|get).*?weather\s+(?:in|at|for)\s+...
Openers == << <<"w","h","a","t","'","s">>, <<"w","h","a","t","s">>, <<"w","h","a","t">>, <<"t","e","l","l">>, <<"s","h","o","w">>, <<"g","e","t">> >>

\* the weather clauses the lazy .*? can reach from a (no newline in between)
ReachableClauses(s, a) ==
    {w \in a..Len(s) : WeatherPrep(s, w) # 0 /\ LineEnd(s, a) >= w}

Pattern1Starts(s) ==
    {p \in 1..Len(s) :
        \E i \in 1..Len(Openers) :
            /\ StartsWithAt(s, p, Openers[i])
            /\ ReachableClauses(s, p + Len(Openers[i])) # {}}

Pattern1(s) ==
    IF Pattern1Starts(s) = {} THEN None
    ELSE LET p == Min(Pattern1Starts(s))
             i == Min({j \in 1..Len(Openers) :
                         /\ StartsWithAt(s, p, Openers[j])
                         /\ ReachableClauses(s, p + Len(Openers[j])) # {}})
             w == Min(ReachableClauses(s, p + Len(Openers[i])))
         IN  LazyGroupFrom(s, WeatherPrep(s, w))

\* pattern 3: (.+?)\s+weather
\* \s+weather tried at j
WsWeather(s, j) ==
    /\ j <= Len(s)
    /\ s[j] \in Whitespace
    /\ StartsWithAt(s, RunEnd(s, j), K_weather)

Pattern3Ends(s, p) == {j \in (p + 1)..Len(s) : WsWeather(s, j) /\ LineEnd(s, p) >= j}

Pattern3(s) ==
    IF \A p \in 1..Len(s) : Pattern3Ends(s, p) = {} THEN None
    ELSE LET p == Min({r \in 1..Len(s) : Pattern3Ends(s, r) # {}})
         IN  SubSeq(s, p, Min(Pattern3Ends(s, p)) - 1)

\* pattern 4: weather\s+(?:in|at|for)\s+(.+?)$
\* the start of the group for the clause at w, or 0
Pattern4Group(s, w) ==
    LET c == WeatherPrep(s, w)
        g == IF c = 0 THEN 0 ELSE WsThenSome(s, c)
    IN  IF g # 0 /\ DollarAt(s, LineEnd(s, g)) THEN g ELSE 0

Pattern4(s) ==
    IF \A w \in 1..Len(s) : Pattern4Group(s, w) = 0 THEN None
    ELSE LET w == Min({r \in 1..Len(s) : Pattern4Group(s, r) # 0})
             g == Pattern4Group(s, w)
         IN  SubSeq(s, g, LineEnd(s, g) - 1)

\* re.sub(r'\s+(weather|joke|like|today|now|current)', '', location)
CommonWords ==
    << <<"w","e","a","t","h","e","r">>, <<"j","o","k","e">>, <<"l","i","k","e">>, <<"t","o","d","a","y">>, <<"n","o","w">>, <<"c","u","r","r","e","n","t">> >>

CommonWordAt(s, p) ==
    {i \in 1..Len(CommonWords) : StartsWithAt(s, p, CommonWords[i])}

RECURSIVE RemoveCommonWords(_)
RemoveCommonWords(s) ==
    IF s = << >> THEN << >>
    ELSE IF s[1] \in Whitespace /\ CommonWordAt(s, RunEnd(s, 1)) # {}
         THEN LET e == RunEnd(s, 1)
                  i == Min(CommonWordAt(s, e))
              IN  RemoveCommonWords(From(s, e + Len(CommonWords[i])))
         ELSE <<s[1]>> \o RemoveCommonWords(Tail(s))

StopWords ==
    { <<"t","h","e">>, <<"a">>, <<"a","n">>, <<"w","h","a","t">>, <<"h","o","w">>, <<"t","e","l","l">>, <<"m","e">>, <<"i","s">>, <<"i","t">> }

\* lines 80-89: the candidate a pattern's group is cleaned to
CleanCandidate(group) ==
    CollapseCommaSpace(
        RStripSet(Strip(RemoveCommonWords(Strip(group))), {".", ",", "!", "?"}))

\* line 92
Acceptable(location) == Len(location) > 2 /\ location \notin StopWords

\* the groups of the four patterns, in the listed order (None: no match)
PatternGroups(message_lower) ==
    << Pattern1(message_lower), Pattern2(message_lower),
       Pattern3(message_lower), Pattern4(message_lower) >>

\* A parser that stops at the first pattern that matches.
FirstMatchOnly(message) ==
    LET groups == PatternGroups(Lower(message))
        matched == {i \in 1..4 : groups[i] # None}
    IN  IF matched # {} /\ Acceptable(CleanCandidate(groups[Min(matched)]))
        THEN CleanCandidate(groups[Min(matched)])
        ELSE None

\* lines 77-95: the loop over the patterns
parse_location_from_message(message) ==
    LET groups == PatternGroups(Lower(message))
        good == {i \in 1..4 : groups[i] # None /\ Acceptable(CleanCandidate(groups[i]))}
    IN  IF good = {} THEN None ELSE CleanCandidate(groups[Min(good)])

(***************************************************************************)
(* The gazetteer and AIAgent._format_location_name                         *)
(* (src/agent/base.py:371-415)                                             *)
(***************************************************************************)
\* the place names of location_names and of LOCATION_COORDINATES, in the
\* order of the tables; every name is also listed with the suffix ",ny"
GazetteerNames ==
    << <<"l","i","t","t","l","e"," ","n","e","c","k">>, <<"h","u","n","t","i","n","g","t","o","n">>, <<"q","u","e","e","n","s">>, <<"m","a","n","h","a","t","t","a","n">>,
       <<"b","r","o","o","k","l","y","n">>, <<"b","r","o","n","x">>, <<"s","t","a","t","e","n"," ","i","s","l","a","n","d">>, <<"n","e","w"," ","y","o","r","k">> >>

GazetteerDisplay ==
    << <<"L","i","t","t","l","e"," ","N","e","c","k",","," ","N","Y">>, <<"H","u","n","t","i","n","g","t","o","n",","," ","N","Y">>, <<"Q","u","e","e","n","s",","," ","N","Y">>, <<"M","a","n","h","a","t","t","a","n",","," ","N","Y">>,
       <<"B","r","o","o","k","l","y","n",","," ","N","Y">>, <<"B","r","o","n","x",","," ","N","Y">>, <<"S","t","a","t","e","n"," ","I","s","l","a","n","d",","," ","N","Y">>, <<"N","e","w"," ","Y","o","r","k",","," ","N","Y">> >>

\* the coordinates of LOCATION_COORDINATES, as "%.2f" prints them
GazetteerCoordinates ==
    << <<<<"4","0",".","7","8">>, <<"-","7","3",".","7","4">>>>, <<<<"4","0",".","8","7">>, <<"-","7","3",".","4","3">>>>, <<<<"4","0",".","7","3">>, <<"-","7","3",".","7","9">>>>,
       <<<<"4","0",".","7","8">>, <<"-","7","3",".","9","7">>>>, <<<<"4","0",".","6","8">>, <<"-","7","3",".","9","4">>>>, <<<<"4","0",".","8","4">>, <<"-","7","3",".","8","6">>>>,
       <<<<"4","0",".","5","8">>, <<"-","7","4",".","1","5">>>>, <<<<"4","0",".","7","1">>, <<"-","7","4",".","0","1">>>> >>

\* the index of the table entry with this key, or 0: the keys are the names
\* and the names followed by ",ny"
GazetteerIndex(key) ==
    LET hit == {i \in 1..Len(GazetteerNames) :
                    key = GazetteerNames[i] \/ key = GazetteerNames[i] \o <<",","n","y">>}
    IN  IF hit = {} THEN 0 ELSE Min(hit)

\* lines 409-415: every comma-separated part with its words capitalized
RECURSIVE CapitalizeWords(_)
CapitalizeWords(words) ==
    IF words = << >> THEN << >>
    ELSE <<Capitalize(Head(words))>> \o CapitalizeWords(Tail(words))

RECURSIVE FormatParts(_)
FormatParts(parts) ==
    IF parts = << >> THEN << >>
    ELSE <<Join(CapitalizeWords(SplitWords(Strip(Head(parts)))), <<" ">>)>>
            \o FormatParts(Tail(parts))

\* The formatting as it must not be: the tables looked up without lower().
FormatCaseSensitive(location) ==
    LET location_normalized == CollapseCommaSpace(Strip(location))
        location_no_state == Strip(Split(location_normalized, ",")[1])
    IN  IF GazetteerIndex(location_normalized) # 0
        THEN GazetteerDisplay[GazetteerIndex(location_normalized)]
        ELSE IF GazetteerIndex(location_no_state) # 0
             THEN GazetteerDisplay[GazetteerIndex(location_no_state)]
             ELSE Join(FormatParts(Split(location, ",")), <<","," ">>)

_format_location_name(location) ==
    LET location_lower == Strip(Lower(location))
        location_normalized == CollapseCommaSpace(location_lower)
        location_no_state == Strip(Split(location_normalized, ",")[1])
    IN  IF GazetteerIndex(location_normalized) # 0
        THEN GazetteerDisplay[GazetteerIndex(location_normalized)]
        ELSE IF GazetteerIndex(location_no_state) # 0
             THEN GazetteerDisplay[GazetteerIndex(location_no_state)]
             ELSE Join(FormatParts(Split(location, ",")), <<","," ">>)

(***************************************************************************)
(* Results of calls: a returned value, or a raised exception               *)
(***************************************************************************)
Return(v) == [raised |-> FALSE, value |-> v]
Raise(e) == [raised |-> TRUE, value |-> e]

(***************************************************************************)
(* Numbers and coordinates                                                 *)
(***************************************************************************)
Digits == <<"0","1","2","3","4","5","6","7","8","9">>

\* str(n) of an integer
RECURSIVE NatToChars(_)
NatToChars(n) ==
    IF n < 10 THEN <<Digits[n + 1]>>
    ELSE NatToChars(n \div 10) \o <<Digits[(n % 10) + 1]>>

IntToChars(n) == IF n < 0 THEN <<"-">> \o NatToChars(0 - n) ELSE NatToChars(n)

\* round((temp - 32) * 5 / 9): ninths never fall on a half
FahrenheitToCelsius(temp) == (10 * (temp - 32) + 9) \div 18

\* A latitude or longitude as the caller passes it: None, a float (text is
\* what "%.2f" prints) or, from a JSON body, a string.
NoCoord == [type |-> "NoneType", text |-> << >>]
FloatCoord(t) == [type |-> "float", text |-> t]
StrCoord(t) == [type |-> "str", text |-> t]

\* Python truthiness of a coordinate
CoordTruthy(c) ==
    /\ c.type # "NoneType"
    /\ ~(c.type = "float" /\ c.text \in {<<"0",".","0","0">>, <<"-","0",".","0","0">>})
    /\ ~(c.type = "str" /\ c.text = << >>)

\* f"{c:.2f}" raises ValueError for a str and TypeError for None
Format2f(c) ==
    IF c.type = "float" THEN Return(c.text)
    ELSE IF c.type = "str" THEN Raise("ValueError") ELSE Raise("TypeError")

(***************************************************************************)
(* WeatherService (src/utils/weather.py)                                   *)
(***************************************************************************)
DEFAULT_LOCATION == <<"Q","u","e","e","n","s",",","N","Y",",","U","S">>

\* lines 134-146: the coordinates get_weather goes on with
ResolveCoordinates(city, lat, lon) ==
    LET city_normalized == CollapseCommaSpace(Strip(Lower(city)))
        city_no_state == Strip(Split(city_normalized, ",")[1])
        i == GazetteerIndex(city_normalized)
        j == GazetteerIndex(city_no_state)
        k == IF i # 0 THEN i ELSE j
    IN  IF k # 0
        THEN <<FloatCoord(GazetteerCoordinates[k][1]), FloatCoord(GazetteerCoordinates[k][2])>>
        ELSE <<lat, lon>>

\* lines 289-310 (and 194-215): the display name of a place of the gazetteer,
\* or None for a place it does not hold
KnownPlaceName(city) ==
    LET city_lower == Strip(Lower(city))
        city_normalized == CollapseCommaSpace(city_lower)
        first == Strip(Split(city_lower, ",")[1])
        branch == {i \in 1..Len(GazetteerNames) :
                      \/ city_normalized = GazetteerNames[i] \o <<",","n","y">>
                      \/ city_normalized = GazetteerNames[i]
                      \/ StartsWith(city_lower, GazetteerNames[i])}
    IN  IF /\ (GazetteerIndex(city_normalized) # 0 \/ GazetteerIndex(first) # 0)
           /\ branch # {}
        THEN GazetteerDisplay[Min(branch)]
        ELSE None

\* str.title() of a description: a letter after a non-letter is upper case
IsLetter(c) == LowerChar(c) # c \/ UpperChar(c) # c

Title(s) ==
    << >> \o [i \in 1..Len(s) |->
                IF i = 1 \/ ~IsLetter(s[i - 1]) THEN UpperChar(s[i]) ELSE LowerChar(s[i])]

\* What a source answers.  kind: "ok" (status 200 and a well-formed body),
\* "http_error" (another status), "network_error" and "timeout" (the request
\* raises), "bad_payload" (status 200, a body the parser cannot read).
\* name, region: the locality names of the body; temp, feels_like, humidity,
\* wind: its readings; description: its free text.
SourceKinds == {"ok", "http_error", "network_error", "timeout", "bad_payload"}

\* _parse_weather_data (lines 186-238) of a well-formed body
_parse_weather_data(data, location) ==
    LET display_location ==
            IF KnownPlaceName(location) # None THEN KnownPlaceName(location)
            ELSE IF data.name # << >> THEN data.name
                 ELSE IF location # << >> THEN location
                      ELSE <<"U","n","k","n","o","w","n"," ","L","o","c","a","t","i","o","n">>
    IN  [temperature_f |-> data.temp,
         temperature_c |-> FahrenheitToCelsius(data.temp),
         feels_like_f |-> data.feels_like,
         condition |-> data.condition,
         description |-> Title(data.description),
         humidity |-> data.humidity,
         wind_speed |-> data.wind,
         location |-> display_location]

\* condition_map (lines 337-356): the first key that is a substring
ConditionKeys ==
    << <<"s","u","n","n","y">>, <<"c","l","e","a","r">>, <<"p","a","r","t","l","y"," ","c","l","o","u","d","y">>, <<"c","l","o","u","d","y">>, <<"o","v","e","r","c","a","s","t">>, <<"m","i","s","t">>,
       <<"f","o","g">>, <<"l","i","g","h","t"," ","r","a","i","n">>, <<"m","o","d","e","r","a","t","e"," ","r","a","i","n">>, <<"h","e","a","v","y"," ","r","a","i","n">>, <<"l","i","g","h","t"," ","s","n","o","w">>,
       <<"m","o","d","e","r","a","t","e"," ","s","n","o","w">>, <<"h","e","a","v","y"," ","s","n","o","w">> >>

ConditionValues ==
    << <<"C","l","e","a","r">>, <<"C","l","e","a","r">>, <<"C","l","o","u","d","s">>, <<"C","l","o","u","d","s">>, <<"C","l","o","u","d","s">>, <<"M","i","s","t">>,
       <<"F","o","g">>, <<"R","a","i","n">>, <<"R","a","i","n">>, <<"R","a","i","n">>, <<"S","n","o","w">>, <<"S","n","o","w">>, <<"S","n","o","w">> >>

MapCondition(weather_desc) ==
    LET hit == {i \in 1..Len(ConditionKeys) : Contains(Lower(weather_desc), ConditionKeys[i])}
    IN  IF hit = {} THEN <<"C","l","e","a","r">> ELSE ConditionValues[Min(hit)]

\* lines 327: f"{lat:.2f}, {lon:.2f}" if lat and lon else "Unknown Location"
CoordinatesName(lat, lon) ==
    IF CoordTruthy(lat) /\ CoordTruthy(lon)
    THEN IF lat.type = "float" /\ lon.type = "float"
         THEN Return(lat.text \o <<","," ">> \o lon.text)
         ELSE Raise("ValueError")
    ELSE Return(<<"U","n","k","n","o","w","n"," ","L","o","c","a","t","i","o","n">>)

\* lines 288-327: the location name of the snapshot; known is the display
\* name of the gazetteer for the requested city, or None
WttrLocationName(known, data, city, lat, lon) ==
    IF known # None THEN Return(known)
    ELSE IF data.name # << >>
         THEN IF data.region # << >> /\ data.region # data.name
              THEN Return(data.name \o <<","," ">> \o data.region)
              ELSE Return(data.name)
         ELSE IF city # << >> THEN Return(city) ELSE CoordinatesName(lat, lon)

\* lines 329-370: the snapshot, once the location name is there
WttrSnapshot(data, location_name) ==
    IF location_name.raised THEN location_name
    ELSE Return([temperature_f |-> data.temp,
                 temperature_c |-> data.temp_c,
                 feels_like_f |-> data.feels_like,
                 condition |-> MapCondition(data.description),
                 description |-> data.description,
                 humidity |-> data.humidity,
                 wind_speed |-> data.wind,
                 location |-> location_name.value])

\* _parse_wttr_data (lines 276-373): an exception is logged and raised again
_parse_wttr_data(data, city, lat, lon) ==
    IF data.kind = "bad_payload" THEN Raise("ValueError")
    ELSE WttrSnapshot(data, WttrLocationName(KnownPlaceName(city), data, city, lat, lon))

\* _fetch_from_wttr (lines 240-274): whatever goes wrong is logged and raised
\* again
_fetch_from_wttr(city, lat, lon, answer) ==
    IF answer.kind \in {"network_error", "timeout"} THEN Raise("ClientError")
    ELSE IF answer.kind = "http_error" THEN Raise("Exception")
    ELSE _parse_wttr_data(answer, city, lat, lon)

\* A fallback snapshot with other readings and no location of its own.
OtherFallback ==
    [temperature_f |-> 70,
     temperature_c |-> 21,
     feels_like_f |-> 70,
     condition |-> <<"C","l","o","u","d","s">>,
     description |-> <<"C","l","o","u","d","y">>,
     humidity |-> 60,
     wind_speed |-> 5,
     location |-> <<"U","n","k","n","o","w","n"," ","L","o","c","a","t","i","o","n">>]

\* _get_fallback_weather (lines 375-386)
_get_fallback_weather ==
    [temperature_f |-> 72,
     temperature_c |-> 22,
     feels_like_f |-> 72,
     condition |-> <<"C","l","e","a","r">>,
     description |-> <<"C","l","e","a","r"," ","s","k","y">>,
     humidity |-> 50,
     wind_speed |-> 5,
     location |-> <<"Q","u","e","e","n","s",","," ","N","Y">>]

\* lines 149-177: the OpenWeatherMap attempt.  Its result is the snapshot
\* returned from inside the try block, or the exception the block caught
\* ("http_error" falls out of the block without either).
TryOpenWeatherMap(city, answer) ==
    IF answer.kind = "ok" THEN Return(_parse_weather_data(answer, city))
    ELSE IF answer.kind = "http_error" THEN Raise("status")
    ELSE IF answer.kind = "bad_payload" THEN Raise("IndexError")
    ELSE Raise("ClientError")

\* The wttr.in attempt without the except clause of lines 182-184: what it
\* raises goes on to the caller.
OrRaise(r) == [raised |-> r.raised, value |-> r.value, attempts |-> <<"wttr.in">>]

\* lines 179-184: the result of the wttr.in attempt, or the static fallback
\* when it raised
OrFallback(r) ==
    IF r.raised
    THEN [raised |-> FALSE, value |-> _get_fallback_weather, attempts |-> <<"wttr.in", "fallback">>]
    ELSE [raised |-> FALSE, value |-> r.value, attempts |-> <<"wttr.in">>]

\* A service that asks wttr.in whatever OpenWeatherMap answered.
AlwaysSecondary(first, tried, second) ==
    [second EXCEPT !.attempts = tried \o @,
                   !.value = IF first.raised THEN @ ELSE first.value]

\* lines 148-184, the coordinates resolved: first is the outcome of the
\* OpenWeatherMap attempt
AfterPrimary(first, tried, second) ==
    IF ~first.raised
    THEN [raised |-> FALSE, value |-> first.value, attempts |-> tried]
    ELSE [second EXCEPT !.attempts = tried \o @]

SourcesInOrder(api_key, city, coords, net) ==
    AfterPrimary(IF Truthy(api_key) THEN TryOpenWeatherMap(city, net.primary)
                 ELSE Raise("skipped"),
                 IF Truthy(api_key) THEN <<"openweathermap">> ELSE << >>,
                 OrFallback(_fetch_from_wttr(city, coords[1], coords[2], net.secondary)))

\* get_weather (lines 111-184).  api_key is the service's key (None when not
\* configured), net the answers of the two sources.  The result also names
\* the sources attempted, in order.
get_weather(api_key, city, lat, lon, net) ==
    SourcesInOrder(api_key, city, ResolveCoordinates(city, lat, lon), net)

(***************************************************************************)
(* The fixed texts (src/agent/responses.py, src/utils/weather.py)           *)
(***************************************************************************)
\* src/agent/responses.py:33-44
GENERAL_JOKES ==
    << <<"W","h","y"," ","d","o","n","'","t"," ","s","c","i","e","n","t","i","s","t","s"," ","t","r","u","s","t"," ","a","t","o","m","s","?"," ","B","e","c","a","u","s","e"," ","t","h","e","y"," ","m","a","k","e"," ","u","p"," ","e","v","e","r","y","t","h","i","n","g","!"," ","U+1F52C">>,
       <<"I"," ","t","o","l","d"," ","m","y"," ","c","o","m","p","u","t","e","r"," ","I"," ","n","e","e","d","e","d"," ","a"," ","b","r","e","a","k",","," ","a","n","d"," ","n","o","w"," ","i","t"," ","w","o","n","'","t"," ","s","t","o","p"," ","s","e","n","d","i","n","g"," ","m","e"," ","K","i","t","-","K","a","t","s","!"," ","U+1F36B">>,
       <<"W","h","y"," ","d","i","d"," ","t","h","e"," ","p","r","o","g","r","a","m","m","e","r"," ","q","u","i","t"," ","h","i","s"," ","j","o","b","?"," ","B","e","c","a","u","s","e"," ","h","e"," ","d","i","d","n","'","t"," ","g","e","t"," ","a","r","r","a","y","s","!"," ","U+1F4BB">>,
       <<"W","h","a","t"," ","d","o"," ","y","o","u"," ","c","a","l","l"," ","a"," ","b","e","a","r"," ","w","i","t","h"," ","n","o"," ","t","e","e","t","h","?"," ","A"," ","g","u","m","m","y"," ","b","e","a","r","!"," ","U+1F43B">>,
       <<"W","h","y"," ","d","i","d"," ","t","h","e"," ","s","c","a","r","e","c","r","o","w"," ","w","i","n"," ","a","n"," ","a","w","a","r","d","?"," ","H","e"," ","w","a","s"," ","o","u","t","s","t","a","n","d","i","n","g"," ","i","n"," ","h","i","s"," ","f","i","e","l","d","!"," ","U+1F33E">>,
       <<"I","'","m"," ","r","e","a","d","i","n","g"," ","a"," ","b","o","o","k"," ","a","b","o","u","t"," ","a","n","t","i","-","g","r","a","v","i","t","y","."," ","I","t","'","s"," ","i","m","p","o","s","s","i","b","l","e"," ","t","o"," ","p","u","t"," ","d","o","w","n","!"," ","U+1F4DA">>,
       <<"W","h","y"," ","d","o","n","'","t"," ","e","g","g","s"," ","t","e","l","l"," ","j","o","k","e","s","?"," ","T","h","e","y","'","d"," ","c","r","a","c","k"," ","e","a","c","h"," ","o","t","h","e","r"," ","u","p","!"," ","U+1F95A">>,
       <<"W","h","a","t"," ","d","o"," ","y","o","u"," ","c","a","l","l"," ","a"," ","f","a","k","e"," ","n","o","o","d","l","e","?"," ","A","n"," ","i","m","p","a","s","t","a","!"," ","U+1F35D">>,
       <<"W","h","y"," ","d","i","d"," ","t","h","e"," ","m","a","t","h"," ","b","o","o","k"," ","l","o","o","k"," ","s","o"," ","s","a","d","?"," ","B","e","c","a","u","s","e"," ","i","t"," ","h","a","d"," ","t","o","o"," ","m","a","n","y"," ","p","r","o","b","l","e","m","s","!"," ","U+1F4D6">>,
       <<"W","h","a","t"," ","d","i","d"," ","t","h","e"," ","o","c","e","a","n"," ","s","a","y"," ","t","o"," ","t","h","e"," ","b","e","a","c","h","?"," ","N","o","t","h","i","n","g",","," ","i","t"," ","j","u","s","t"," ","w","a","v","e","d","!"," ","U+1F30A">> >>

\* src/agent/responses.py:47-53
GREETINGS ==
    << <<"H","e","l","l","o","!"," ","H","o","w"," ","c","a","n"," ","I"," ","h","e","l","p"," ","y","o","u"," ","t","o","d","a","y","?"," ","U+1F44B">>,
       <<"H","i"," ","t","h","e","r","e","!"," ","W","h","a","t"," ","c","a","n"," ","I"," ","d","o"," ","f","o","r"," ","y","o","u","?"," ","U+1F60A">>,
       <<"H","e","y","!"," ","G","r","e","a","t"," ","t","o"," ","s","e","e"," ","y","o","u","!"," ","H","o","w"," ","c","a","n"," ","I"," ","a","s","s","i","s","t","?"," ","U+1F31F">>,
       <<"G","r","e","e","t","i","n","g","s","!"," ","I","'","m"," ","h","e","r","e"," ","t","o"," ","h","e","l","p","!"," ","U+1F916">>,
       <<"H","e","l","l","o","!"," ","R","e","a","d","y"," ","t","o"," ","c","h","a","t","?"," ","W","h","a","t","'","s"," ","o","n"," ","y","o","u","r"," ","m","i","n","d","?"," ","U+1F4AC">> >>

\* src/agent/responses.py:56-62
DEFAULT_RESPONSES ==
    << <<"I","'","m"," ","n","o","t"," ","s","u","r","e"," ","I"," ","u","n","d","e","r","s","t","a","n","d","."," ","C","o","u","l","d"," ","y","o","u"," ","t","r","y"," ","a","s","k","i","n","g"," ","d","i","f","f","e","r","e","n","t","l","y","?">>,
       <<"T","h","a","t","'","s"," ","i","n","t","e","r","e","s","t","i","n","g","!"," ","T","e","l","l"," ","m","e"," ","m","o","r","e"," ","a","b","o","u","t"," ","t","h","a","t",".">>,
       <<"I","'","m"," ","s","t","i","l","l"," ","l","e","a","r","n","i","n","g","!"," ","C","o","u","l","d"," ","y","o","u"," ","r","e","p","h","r","a","s","e"," ","y","o","u","r"," ","q","u","e","s","t","i","o","n","?">>,
       <<"H","m","m",","," ","I","'","m"," ","n","o","t"," ","q","u","i","t","e"," ","s","u","r","e"," ","h","o","w"," ","t","o"," ","r","e","s","p","o","n","d"," ","t","o"," ","t","h","a","t"," ","y","e","t",".">>,
       <<"I"," ","a","p","p","r","e","c","i","a","t","e"," ","y","o","u","r"," ","m","e","s","s","a","g","e","!"," ","C","o","u","l","d"," ","y","o","u"," ","c","l","a","r","i","f","y"," ","w","h","a","t"," ","y","o","u","'","d"," ","l","i","k","e"," ","h","e","l","p"," ","w","i","t","h","?">> >>

\* src/agent/responses.py:65-79
HELP_TEXT ==
    <<"\n","I","'","m"," ","a","n"," ","A","I"," ","a","s","s","i","s","t","a","n","t"," ","t","h","a","t"," ","c","a","n"," ","h","e","l","p"," ","y","o","u"," ","w","i","t","h",":","\n","-"," ","G","e","n","e","r","a","l"," ","c","o","n","v","e","r","s","a","t","i","o","n"," ","a","n","d"," ","q","u","e","s","t","i","o","n","s","\n","-"," ","W","e","a","t","h","e","r"," ","i","n","f","o","r","m","a","t","i","o","n"," ","(","t","r","y"," ","a","s","k","i","n","g"," ","a","b","o","u","t"," ","t","h","e"," ","w","e","a","t","h","e","r","!",")","\n","-"," ","J","o","k","e","s"," ","a","n","d"," ","h","u","m","o","r"," ","(","a","s","k"," ","m","e"," ","f","o","r"," ","a"," ","j","o","k","e","!",")","\n","-"," ","F","u","n"," ","w","e","a","t","h","e","r"," ","j","o","k","e","s"," ","(","c","o","m","b","i","n","e"," ","b","o","t","h","!",")","\n","\n","T","r","y"," ","a","s","k","i","n","g"," ","m","e",":","\n","-"," ","\"","W","h","a","t","'","s"," ","t","h","e"," ","w","e","a","t","h","e","r"," ","l","i","k","e","?","\"","\n","-"," ","\"","T","e","l","l"," ","m","e"," ","a"," ","j","o","k","e","\"","\n","-"," ","\"","T","e","l","l"," ","m","e"," ","a"," ","w","e","a","t","h","e","r"," ","j","o","k","e","\"","\n","-"," ","\"","H","e","l","l","o","\""," ","o","r"," ","\"","H","i","\"","\n","\n","I","'","m"," ","a","l","w","a","y","s"," ","l","e","a","r","n","i","n","g"," ","a","n","d"," ","i","m","p","r","o","v","i","n","g","!"," ","U+1F680","\n">>

\* format_weather_response, lines 429-436: each joke template up to {location}
JokeHeads ==
    << <<"T","h","e"," ","m","e","t","e","o","r","o","l","o","g","i","s","t","'","s"," ","f","a","v","o","r","i","t","e"," ","t","y","p","e"," ","o","f"," ","m","u","s","i","c","?"," ","H","e","a","v","y"," ","m","e","t","a","l"," ","-"," ","e","s","p","e","c","i","a","l","l","y"," ","w","h","e","n"," ","i","t","'","s"," ","h","a","i","l","i","n","g","!"," ","C","u","r","r","e","n","t","l","y"," ","i","n"," ">>,
       <<"W","h","y"," ","d","o"," ","c","l","o","u","d","s"," ","n","e","v","e","r"," ","g","e","t"," ","l","o","n","e","l","y","?"," ","B","e","c","a","u","s","e"," ","t","h","e","y","'","r","e"," ","a","l","w","a","y","s"," ","i","n"," ","g","o","o","d"," ","c","o","m","p","a","n","y"," ","-"," ","t","h","e","y","'","r","e"," ","q","u","i","t","e"," ","t","h","e"," ","c","u","m","u","l","u","s"," ","c","r","o","w","d","!"," ","R","i","g","h","t"," ","n","o","w"," ","i","n"," ">>,
       <<"W","h","a","t"," ","d","i","d"," ","t","h","e"," ","b","a","r","o","m","e","t","r","i","c"," ","p","r","e","s","s","u","r","e"," ","s","a","y"," ","t","o"," ","t","h","e"," ","t","h","e","r","m","o","m","e","t","e","r","?"," ","'","I","'","m"," ","f","e","e","l","i","n","g"," ","q","u","i","t","e"," ","u","n","d","e","r"," ","p","r","e","s","s","u","r","e"," ","t","o","d","a","y",","," ","b","u","t"," ","y","o","u"," ","s","e","e","m"," ","t","o"," ","b","e"," ","r","i","s","i","n","g"," ","t","o"," ","t","h","e"," ","o","c","c","a","s","i","o","n","!","'"," ","I","n"," ">>,
       <<"T","h","e"," ","w","i","n","d","'","s"," ","f","a","v","o","r","i","t","e"," ","t","y","p","e"," ","o","f"," ","l","i","t","e","r","a","t","u","r","e","?"," ","G","u","s","t","-","a","v","e"," ","F","l","a","u","b","e","r","t"," ","n","o","v","e","l","s",","," ","n","a","t","u","r","a","l","l","y","!"," ","T","o","d","a","y"," ","i","n"," ">>,
       <<"W","h","y"," ","d","i","d"," ","t","h","e"," ","d","e","w"," ","p","o","i","n","t"," ","b","e","c","o","m","e"," ","a"," ","p","h","i","l","o","s","o","p","h","e","r","?"," ","B","e","c","a","u","s","e"," ","i","t"," ","w","a","s"," ","a","l","w","a","y","s"," ","q","u","e","s","t","i","o","n","i","n","g"," ","t","h","e"," ","h","u","m","i","d","i","t","y"," ","o","f"," ","e","x","i","s","t","e","n","c","e","!"," ","C","u","r","r","e","n","t"," ","c","o","n","d","i","t","i","o","n","s"," ","i","n"," ">>,
       <<"W","h","a","t","'","s"," ","a"," ","t","o","r","n","a","d","o","'","s"," ","f","a","v","o","r","i","t","e"," ","d","a","n","c","e","?"," ","T","h","e"," ","t","w","i","s","t",","," ","o","b","v","i","o","u","s","l","y","!"," ","B","u","t"," ","d","o","n","'","t"," ","w","o","r","r","y",","," ","i","n"," ">> >>

\* ... between {location} and {temp}
JokeSeparators ==
    << <<":"," ">>,
       <<" ","i","t","'","s"," ">>,
       <<":"," ">>,
       <<":"," ">>,
       <<":"," ">>,
       <<" ","i","t","'","s"," ","j","u","s","t"," ">> >>

\* ... between {description.lower()} and the emoji
JokeTails ==
    << <<"!">>,
       <<"!">>,
       <<"!">>,
       <<" ","a","n","d"," ","l","i","g","h","t"," ","w","i","n","d","s","!">>,
       <<"!">>,
       <<"!">> >>

\* emoji_map, lines 415-426: the conditions
EmojiConditions ==
    << <<"C","l","e","a","r">>,
       <<"C","l","o","u","d","s">>,
       <<"R","a","i","n">>,
       <<"D","r","i","z","z","l","e">>,
       <<"T","h","u","n","d","e","r","s","t","o","r","m">>,
       <<"S","n","o","w">>,
       <<"M","i","s","t">>,
       <<"F","o","g">>,
       <<"H","a","z","e">> >>

\* ... and their symbols (a character outside ASCII is written U+hex)
EmojiSymbols ==
    << <<"U+2600","U+FE0F">>,
       <<"U+2601","U+FE0F">>,
       <<"U+1F327","U+FE0F">>,
       <<"U+1F326","U+FE0F">>,
       <<"U+26C8","U+FE0F">>,
       <<"U+2744","U+FE0F">>,
       <<"U+1F32B","U+FE0F">>,
       <<"U+1F32B","U+FE0F">>,
       <<"U+1F32B","U+FE0F">> >>

DefaultEmoji == <<"U+1F324","U+FE0F">>

\* random.choice(items): pick is the random draw
Choice(items, pick) == items[(pick % Len(items)) + 1]

\* format_weather_response (src/utils/weather.py:388-456)
Emoji(condition) ==
    LET hit == {i \in 1..Len(EmojiConditions) : EmojiConditions[i] = condition}
    IN  IF hit = {} THEN DefaultEmoji ELSE EmojiSymbols[Min(hit)]

Degrees == <<"U+00B0", "F">>

format_weather_response(weather_data, include_joke, requested_location, pick) ==
    LET temp == IntToChars(weather_data.temperature_f)
        feels_like == IntToChars(weather_data.feels_like_f)
        humidity == weather_data.humidity
        wind == weather_data.wind_speed
        description == Lower(weather_data.description)
        location == IF Truthy(requested_location) THEN requested_location
                    ELSE weather_data.location
        emoji == Emoji(weather_data.condition)
        k == (pick % Len(JokeHeads)) + 1
    IN  IF include_joke
        THEN JokeHeads[k] \o location \o JokeSeparators[k] \o temp \o Degrees
                \o <<" ","w","i","t","h"," ">> \o description \o JokeTails[k] \o <<" ">> \o emoji
        ELSE <<"C","u","r","r","e","n","t"," ","w","e","a","t","h","e","r"," ","i","n"," ">> \o location \o <<":"," ">> \o temp \o Degrees
                \o (IF weather_data.feels_like_f # weather_data.temperature_f
                    THEN <<" ","(","f","e","e","l","s"," ","l","i","k","e"," ">> \o feels_like \o Degrees \o <<")">>
                    ELSE << >>)
                \o <<" ","w","i","t","h"," ">> \o description \o <<"."," ">> \o emoji
                \o (IF humidity > 70
                    THEN <<" ","I","t","'","s"," ","q","u","i","t","e"," ","h","u","m","i","d"," ","(">> \o IntToChars(humidity) \o <<"%"," ","h","u","m","i","d","i","t","y",")",".">>
                    ELSE IF humidity < 30
                         THEN <<" ","T","h","e"," ","a","i","r"," ","i","s"," ","d","r","y"," ","(">> \o IntToChars(humidity) \o <<"%"," ","h","u","m","i","d","i","t","y",")",".">>
                         ELSE << >>)
                \o (IF wind > 15
                    THEN <<" ","W","i","n","d","y"," ","c","o","n","d","i","t","i","o","n","s"," ","w","i","t","h"," ">> \o IntToChars(wind) \o <<" ","m","p","h"," ","w","i","n","d","s",".">>
                    ELSE IF wind > 5
                         THEN <<" ","L","i","g","h","t"," ","b","r","e","e","z","e"," ","a","t"," ">> \o IntToChars(wind) \o <<" ","m","p","h",".">>
                         ELSE << >>)

(***************************************************************************)
(* AIAgent: the handlers (src/agent/base.py)                               *)
(***************************************************************************)
\* A location argument: None, or the dict of the request.  dict.get answers
\* None for a missing key, so None and {} are the record without any field.
NoLocation == [lat |-> NoCoord, lon |-> NoCoord, city |-> None]

\* lines 294 and 331: location and location.get('lat') and location.get('lon')
HasCoordinates(location) == CoordTruthy(location.lat) /\ CoordTruthy(location.lon)

\* Lines 300-307 (the same as 337-344 and 193-199): the browser's
\* coordinates, w the result of get_weather.  `calls` lists the provider
\* calls awaited, also when an exception follows them.
AtCoordinates(location, w) ==
    IF w.raised THEN [raised |-> TRUE, value |-> w.value, calls |-> <<"get_weather">>]
    ELSE IF ~Truthy(location.city)
    THEN \* the default of dict.get, f"{lat:.2f}, {lon:.2f}", is evaluated first
         IF location.lat.type = "float" /\ location.lon.type = "float"
         THEN [raised |-> FALSE,
               value |-> [weather_data |-> w.value, display_location |-> w.value.location],
               calls |-> <<"get_weather">>]
         ELSE [raised |-> TRUE, value |-> "ValueError", calls |-> <<"get_weather">>]
    ELSE [raised |-> FALSE,
          value |-> [weather_data |-> [w.value EXCEPT !.location = location.city],
                     display_location |-> location.city],
          calls |-> <<"get_weather">>]

\* Lines 312-316 (the same as 349-353 and 202-204): the place of the message
AtDisplayLocation(display_location, w) ==
    IF w.raised THEN [raised |-> TRUE, value |-> w.value, calls |-> <<"get_weather">>]
    ELSE [raised |-> FALSE,
          value |-> [weather_data |-> [w.value EXCEPT !.location = display_location],
                     display_location |-> display_location],
          calls |-> <<"get_weather">>]

\* line 310: parse_location_from_message(message) or DEFAULT_LOCATION
OrDefault(parsed) == IF Truthy(parsed) THEN parsed ELSE DEFAULT_LOCATION

AtParsedLocation(location_str, io) ==
    AtDisplayLocation(_format_location_name(location_str),
                      get_weather(io.api_key, location_str, NoCoord, NoCoord, io.weather))

\* Lines 293-316 (the same as 330-353 and 188-204): the snapshot a weather
\* request is answered from and the place name shown.  io.api_key and
\* io.weather are the service's key and the answers of its sources.
WeatherForRequest(message, location, io) ==
    IF HasCoordinates(location)
    THEN AtCoordinates(location,
                       get_weather(io.api_key,
                                   IF Truthy(location.city) THEN location.city ELSE << >>,
                                   location.lat, location.lon, io.weather))
    ELSE AtParsedLocation(OrDefault(parse_location_from_message(message)), io)

\* lines 319-324: the reply text, r the snapshot and the place name
WeatherReply(r, include_joke, pick) ==
    IF r.raised THEN r
    ELSE [raised |-> FALSE,
          value |-> [text |-> format_weather_response(r.value.weather_data, include_joke,
                                                      r.value.display_location, pick),
                     weather_data |-> r.value.weather_data],
          calls |-> r.calls]

\* _handle_weather_joke (lines 289-324) and _handle_weather_info (326-361),
\* called with return_data=True: (response_text, weather_data)
HandleWeather(message, location, include_joke, io) ==
    WeatherReply(WeatherForRequest(message, location, io), include_joke, io.pick)

_handle_weather_joke(message, location, io) == HandleWeather(message, location, TRUE, io)

_handle_weather_info(message, location, io) == HandleWeather(message, location, FALSE, io)

(***************************************************************************)
(* NewsService (src/utils/news.py)                                         *)
(***************************************************************************)
\* The first n items of a list: items[:n]
Take(items, n) == SubSeq(items, 1, IF n < Len(items) THEN n ELSE Len(items))

\* An answer of NewsAPI: kind "ok" (status 200) with its articles, or
\* "http_error", "network_error".  An answer of an RSS feed: kind "ok" with
\* its entries, "error" (the request raises), "bozo" (a parse error) or
\* "empty" (no entries).
\* lines 122-132: the articles kept of a NewsAPI body
RECURSIVE KeepTitled(_)
KeepTitled(articles) ==
    IF articles = << >> THEN << >>
    ELSE IF Head(articles).title # << >> /\ Head(articles).title # <<"[","R","e","m","o","v","e","d","]">>
         THEN <<Head(articles)>> \o KeepTitled(Tail(articles))
         ELSE KeepTitled(Tail(articles))

\* _fetch_from_newsapi (lines 105-134)
_fetch_from_newsapi(limit, answer) ==
    IF answer.kind = "ok" THEN Return(KeepTitled(Take(answer.articles, limit)))
    ELSE IF answer.kind = "http_error" THEN Raise("Exception")
    ELSE Raise("ClientError")

\* _fetch_local_news_from_newsapi (lines 136-185): the search of NewsAPI for
\* a place.  A status other than 200 and an empty result are both the empty
\* list; a request that raises raises.
_fetch_local_news_from_newsapi(location, limit, answer) ==
    IF answer.kind = "network_error" THEN Raise("ClientError")
    ELSE IF answer.kind = "ok" /\ answer.articles # << >>
         THEN Return(KeepTitled(Take(answer.articles, limit)))
         ELSE Return(<< >>)

\* lines 236-260: the articles made of the entries of a feed
ArticlesOf(feed, limit) == IF feed.kind = "ok" THEN Take(feed.entries, limit) ELSE << >>

\* lines 218-263: the loop over the feeds, at the feed of position i;
\* contacted are the positions of the feeds asked before it
RECURSIVE FeedLoop(_, _, _, _)
FeedLoop(limit, feeds, i, contacted) ==
    IF i > Len(feeds)
    THEN [raised |-> TRUE, value |-> "Exception", contacted |-> contacted]
    ELSE IF ArticlesOf(feeds[i], limit) # << >>
         THEN [raised |-> FALSE, value |-> ArticlesOf(feeds[i], limit),
               contacted |-> contacted \o <<i>>]
         ELSE FeedLoop(limit, feeds, i + 1, contacted \o <<i>>)

\* A loop that goes on to the last feed after one has answered.
EveryFeed(limit, feeds) ==
    [FeedLoop(limit, feeds, 1, << >>) EXCEPT !.contacted = [k \in 1..Len(feeds) |-> k]]

\* _fetch_from_rss (lines 203-267): the feeds in their order, the first one
\* that yields an article wins.  The result also names the positions of the
\* feeds asked, in order.
_fetch_from_rss(limit, feeds) == FeedLoop(limit, feeds, 1, << >>)

\* local_rss_feeds (lines 28-39): the keys, each with the same three feeds
LocalFeedKeys == << <<"n","e","w"," ","y","o","r","k">>, <<"n","y">> >>

\* lines 189-195: the feeds of every key that is a substring of the place;
\* local_feeds are the answers of the three local feeds
RECURSIVE FeedsToTry(_, _, _)
FeedsToTry(location_lower, keys, local_feeds) ==
    IF keys = << >> THEN << >>
    ELSE (IF Contains(location_lower, Head(keys)) THEN local_feeds ELSE << >>)
            \o FeedsToTry(location_lower, Tail(keys), local_feeds)

\* _fetch_from_local_rss (lines 187-201)
_fetch_from_local_rss(location, limit, local_feeds) ==
    IF FeedsToTry(Lower(location), LocalFeedKeys, local_feeds) = << >> THEN Return(<< >>)
    ELSE _fetch_from_rss(limit, FeedsToTry(Lower(location), LocalFeedKeys, local_feeds))

\* _get_fallback_news (lines 269-279)
_get_fallback_news ==
    << [title |-> <<"N","e","w","s"," ","s","e","r","v","i","c","e"," ","t","e","m","p","o","r","a","r","i","l","y"," ","u","n","a","v","a","i","l","a","b","l","e">>,
        description |-> <<"W","e","'","r","e"," ","h","a","v","i","n","g"," ","t","r","o","u","b","l","e"," ","f","e","t","c","h","i","n","g"," ","t","h","e"," ","l","a","t","e","s","t"," ","n","e","w","s","."," ","P","l","e","a","s","e"," ","t","r","y"," ","a","g","a","i","n"," ","l","a","t","e","r",".">>,
        url |-> << >>,
        source |-> <<"S","y","s","t","e","m">>] >>

\* lines 70-76
LocalQuery(location, city, state) ==
    IF Truthy(location) THEN location
    ELSE IF Truthy(city)
         THEN IF Truthy(state) THEN city \o <<","," ">> \o state ELSE city
         ELSE None

\* A result of get_headlines: the articles and the sources asked, in order
Headlines(articles, attempts) == [raised |-> FALSE, value |-> articles, attempts |-> attempts]

\* the sources asked so far, before those of a later result
AfterAttempts(attempts, r) == [r EXCEPT !.attempts = attempts \o @]

\* An except clause at line 101 that lets the exception go on.
RssOrRaise(rss) == [raised |-> rss.raised, value |-> rss.value, attempts |-> <<"rss">>]

\* lines 100-103: the general feeds, and the fallback article when they all
\* fail
RssOrFallback(rss) ==
    IF rss.raised THEN Headlines(_get_fallback_news, <<"rss", "fallback">>)
    ELSE Headlines(rss.value, <<"rss">>)

\* lines 94-103 with a place: local is what _fetch_from_local_rss did.  Its
\* exception is caught at line 101, where nothing else is tried.
AfterLocalRss(local, limit, news) ==
    IF local.raised THEN Headlines(_get_fallback_news, <<"local_rss", "fallback">>)
    ELSE IF local.value # << >> THEN Headlines(local.value, <<"local_rss">>)
    ELSE AfterAttempts(<<"local_rss">>, RssOrFallback(_fetch_from_rss(limit, news.feeds)))

\* lines 93-103
FromRss(local_query, limit, news) ==
    IF Truthy(local_query)
    THEN AfterLocalRss(_fetch_from_local_rss(local_query, limit, news.local_feeds), limit, news)
    ELSE RssOrFallback(_fetch_from_rss(limit, news.feeds))

\* lines 89-91: first is the outcome of the headlines of NewsAPI
AfterNewsApi(first, rss) ==
    IF ~first.raised THEN Headlines(first.value, <<"newsapi">>)
    ELSE AfterAttempts(<<"newsapi">>, rss)

\* lines 81-91: local is the outcome of the search of NewsAPI for the place
AfterLocalNewsApi(local, limit, news, rss) ==
    IF local.raised THEN AfterAttempts(<<"local_newsapi">>, rss)
    ELSE IF local.value # << >> THEN Headlines(local.value, <<"local_newsapi">>)
    ELSE AfterAttempts(<<"local_newsapi">>,
                       AfterNewsApi(_fetch_from_newsapi(limit, news.newsapi), rss))

\* lines 78-103, the place decided
HeadlinesFor(local_query, limit, news) ==
    IF ~Truthy(news.api_key) THEN FromRss(local_query, limit, news)
    ELSE IF Truthy(local_query)
    THEN AfterLocalNewsApi(
             _fetch_local_news_from_newsapi(local_query, limit, news.local_newsapi),
             limit, news, FromRss(local_query, limit, news))
    ELSE AfterNewsApi(_fetch_from_newsapi(limit, news.newsapi),
                      FromRss(local_query, limit, news))

\* get_headlines (lines 47-103).  news.api_key is the service's key,
\* news.newsapi, news.local_newsapi, news.feeds and news.local_feeds the
\* answers of the sources.  The result also names the sources asked, in order.
get_headlines(limit, location, city, state, news) ==
    HeadlinesFor(LocalQuery(location, city, state), limit, news)

\* format_news_response (lines 281-312)
RECURSIVE FormatArticles(_, _)
FormatArticles(articles, i) ==
    IF articles = << >> THEN << >>
    ELSE LET a == Head(articles)
             desc == IF Len(a.description) > 150
                     THEN SubSeq(a.description, 1, 150) \o <<".",".",".">>
                     ELSE a.description
         IN  IntToChars(i) \o <<"."," ">> \o a.title \o <<"\n">>
                \o (IF a.description # << >> THEN <<" "," "," ">> \o desc \o <<"\n">> ELSE << >>)
                \o <<" "," "," ","S","o","u","r","c","e",":"," ">> \o a.source \o <<"\n">>
                \o (IF a.url # << >> THEN <<" "," "," ">> \o a.url \o <<"\n">> ELSE << >>)
                \o <<"\n">>
                \o FormatArticles(Tail(articles), i + 1)

format_news_response(articles) ==
    IF articles = << >>
    THEN <<"I"," ","c","o","u","l","d","n","'","t"," ","f","e","t","c","h"," ","a","n","y"," ","n","e","w","s"," ","a","t"," ","t","h","e"," ","m","o","m","e","n","t","."," ","P","l","e","a","s","e"," ","t","r","y"," ","a","g","a","i","n"," ","l","a","t","e","r",".">>
    ELSE Strip(<<"H","e","r","e"," ","a","r","e"," ","t","h","e"," ","l","a","t","e","s","t"," ","n","e","w","s"," ","h","e","a","d","l","i","n","e","s",":","\n","\n">> \o FormatArticles(articles, 1))

\* _handle_news_request (src/agent/base.py:363-369)
NewsReply(articles) ==
    IF articles.raised
    THEN [raised |-> TRUE, value |-> articles.value, calls |-> <<"get_headlines">>]
    ELSE [raised |-> FALSE, value |-> format_news_response(articles.value),
          calls |-> <<"get_headlines">>]

_handle_news_request(message, io) ==
    NewsReply(get_headlines(5, None, None, None, io.news))

(***************************************************************************)
(* AIAgent: dispatch (src/agent/base.py:21-126, 235-287)                   *)
(***************************************************************************)
\* _init_handlers: the rules in priority order
handlers ==
    << [keywords |-> <<<<"w","e","a","t","h","e","r">>, <<"j","o","k","e">>>>,
        handler |-> "_handle_weather_joke", require_all |-> TRUE],
       [keywords |-> <<<<"w","e","a","t","h","e","r">>, <<"f","o","r","e","c","a","s","t">>, <<"t","e","m","p","e","r","a","t","u","r","e">>>>,
        handler |-> "_handle_weather_info", require_all |-> FALSE],
       [keywords |-> <<<<"j","o","k","e">>, <<"f","u","n","n","y">>, <<"h","u","m","o","r">>, <<"l","a","u","g","h">>>>,
        handler |-> "get_general_joke", require_all |-> FALSE],
       [keywords |-> <<<<"h","e","l","l","o">>, <<"h","i">>, <<"h","e","y">>, <<"g","r","e","e","t","i","n","g","s">>>>,
        handler |-> "get_greeting", require_all |-> FALSE],
       [keywords |-> <<<<"h","e","l","p">>, <<"c","o","m","m","a","n","d","s">>, <<"w","h","a","t"," ","c","a","n"," ","y","o","u"," ","d","o">>>>,
        handler |-> "get_help_text", require_all |-> FALSE],
       [keywords |-> <<<<"n","e","w","s">>, <<"h","e","a","d","l","i","n","e","s">>, <<"c","u","r","r","e","n","t"," ","e","v","e","n","t","s">>>>,
        handler |-> "_handle_news_request", require_all |-> FALSE] >>

\* MessageHandler.matches (lines 38-44)
matches(h, message) ==
    LET message_lower == Lower(message)
    IN  IF h.require_all
        THEN \A i \in 1..Len(h.keywords) : Contains(message_lower, h.keywords[i])
        ELSE \E i \in 1..Len(h.keywords) : Contains(message_lower, h.keywords[i])

\* keyword in handler.keywords
HasKeyword(h, keyword) == \E i \in 1..Len(h.keywords) : h.keywords[i] = keyword

\* the rules that match, by their positions in the list
MatchingRules(message) == {i \in 1..Len(handlers) : matches(handlers[i], message)}

\* a handler that answers with a text alone
TextOnly(r) ==
    [raised |-> r.raised, value |-> [text |-> r.value, weather_data |-> NoDict],
     calls |-> r.calls]

\* lines 253-272: the call of the chosen rule's handler; text and, from the
\* weather handlers, the snapshot
CallHandler(h, message, location, io) ==
    IF h.handler = "_handle_weather_info" THEN _handle_weather_info(message, location, io)
    ELSE IF h.handler = "_handle_weather_joke" THEN _handle_weather_joke(message, location, io)
    ELSE IF h.handler = "_handle_news_request" THEN TextOnly(_handle_news_request(message, io))
    ELSE [raised |-> FALSE,
          value |-> [text |-> IF h.handler = "get_general_joke" THEN Choice(GENERAL_JOKES, io.pick)
                              ELSE IF h.handler = "get_greeting" THEN Choice(GREETINGS, io.pick)
                              ELSE HELP_TEXT,
                     weather_data |-> NoDict],
          calls |-> << >>]

\* lines 274-279: the response type of a rule
ResponseType(h) ==
    IF HasKeyword(h, <<"n","e","w","s">>) \/ HasKeyword(h, <<"h","e","a","d","l","i","n","e","s">>) THEN "news"
    ELSE IF HasKeyword(h, K_weather) THEN "weather"
    ELSE "None"

\* lines 274-284: what _generate_response returns for rule k, r being what
\* its handler returned
Generated(k, r) ==
    IF r.raised THEN [raised |-> TRUE, value |-> r.value, calls |-> r.calls, rule |-> k]
    ELSE [raised |-> FALSE,
          value |-> [response_text |-> r.value.text,
                     response_type |-> ResponseType(handlers[k]),
                     extra_data |-> IF ResponseType(handlers[k]) = "weather"
                                       /\ r.value.weather_data # NoDict
                                    THEN [weather |-> r.value.weather_data]
                                    ELSE << >>,
                     rule |-> k],
          calls |-> r.calls]

\* lines 286-287: no rule matches
DefaultResponse(pick) ==
    [raised |-> FALSE,
     value |-> [response_text |-> Choice(DEFAULT_RESPONSES, pick),
                response_type |-> "None",
                extra_data |-> << >>,
                rule |-> 0],
     calls |-> << >>]

\* The dispatch as it must not be: the last of the rules `matching`.
LastOf(matching, message, location, io) ==
    IF matching = {} THEN DefaultResponse(io.pick)
    ELSE Generated(Max(matching), CallHandler(handlers[Max(matching)], message, location, io))

\* lines 250-287: the first of the rules `matching`
FirstOf(matching, message, location, io) ==
    IF matching = {} THEN DefaultResponse(io.pick)
    ELSE Generated(Min(matching), CallHandler(handlers[Min(matching)], message, location, io))

\* _generate_response (lines 235-287).  rule is the position of the rule whose
\* handler produced the text (0: the default response).
_generate_response(message, location, io) ==
    FirstOf(MatchingRules(message), message, location, io)

(***************************************************************************)
(* AIAgent.process_message (src/agent/base.py:128-233)                     *)
(***************************************************************************)
\* A validation that refuses the empty string alone.
EmptyOnly(message) == message = << >>

\* line 146: not message or not isinstance(message, str)
InvalidMessage(message) == ~IsStr(message) \/ message = << >>

\* lines 176-186: the articles fetched again for the metadata
NewsMetadata(articles) ==
    [raised |-> articles.raised,
     value |-> [articles |-> articles.value, type |-> "news"],
     calls |-> <<"get_headlines">>]

\* lines 188-206: the snapshot fetched again, when the handler gave none
WeatherMetadata(r) ==
    [raised |-> r.raised,
     value |-> IF r.raised THEN r.value
               ELSE [weather |-> r.value.weather_data, type |-> "weather"],
     calls |-> r.calls]

\* lines 173-206: the metadata of the response
BuildMetadata(message, location, g, io) ==
    IF g.response_type = "news" THEN NewsMetadata(get_headlines(5, None, None, None, io.news_again))
    ELSE IF g.response_type = "weather"
    THEN IF "weather" \in DOMAIN g.extra_data
         THEN [raised |-> FALSE,
               value |-> [weather |-> g.extra_data.weather, type |-> "weather"],
               calls |-> << >>]
         ELSE WeatherMetadata(WeatherForRequest(message, location, io))
    ELSE [raised |-> FALSE, value |-> << >>, calls |-> << >>]

\* lines 208-223: the response and the history entry, m being the metadata
Responded(call, timestamp, message, g, m) ==
    IF m.raised
    THEN [raised |-> TRUE, value |-> m.value, effective |-> message,
          rule |-> g.value.rule, calls |-> g.calls \o m.calls]
    ELSE [raised |-> FALSE,
          value |-> [content |-> g.value.response_text,
                     type |-> "chat",
                     timestamp |-> timestamp,
                     user_id |-> call.user_id,
                     metadata |-> m.value],
          entry |-> [timestamp |-> timestamp,
                     user_id |-> call.user_id,
                     message |-> message,
                     response |-> g.value.response_text],
          effective |-> message,
          rule |-> g.value.rule,
          calls |-> g.calls \o m.calls]

\* lines 171-223: g is what _generate_response returned for `message`
AfterResponse(call, io, timestamp, message, g) ==
    IF g.raised
    THEN [raised |-> TRUE, value |-> g.value, effective |-> message,
          rule |-> g.rule, calls |-> g.calls]
    ELSE Responded(call, timestamp, message, g,
                   BuildMetadata(message, call.location, g.value, io))

\* lines 171-223: message is the message after the follow-up rewrite
Answer(call, io, timestamp, message) ==
    AfterResponse(call, io, timestamp, message,
                  _generate_response(message, call.location, io))

\* The body of the try block, lines 153-223, for a call whose arguments are
\* in `call`, at time `timestamp`: the response, the history entry, and what
\* was done on the way (effective: the message after the follow-up rewrite;
\* rule: the rule that answered; calls: the provider calls awaited).
TryBlock(call, io, timestamp) ==
    Answer(call, io, timestamp, RewriteFollowUp(call.message, call.context))

\* An except block that answers with the exception's own text, as a chat
\* reply.
RawErrorReply(call, timestamp) ==
    [content |-> <<"V","a","l","u","e","E","r","r","o","r">>,
     type |-> "chat",
     timestamp |-> timestamp,
     user_id |-> call.user_id]

\* lines 225-233: the reply of the except block
ErrorReply(call, timestamp) ==
    [content |-> <<"I"," ","e","n","c","o","u","n","t","e","r","e","d"," ","a","n"," ","e","r","r","o","r"," ","p","r","o","c","e","s","s","i","n","g"," ","y","o","u","r"," ","m","e","s","s","a","g","e","."," ","P","l","e","a","s","e"," ","t","r","y"," ","a","g","a","i","n",".">>,
     type |-> "error",
     timestamp |-> timestamp,
     user_id |-> call.user_id]

(***************************************************************************)
(* The history buffer (src/agent/base.py:79, 417-433, 450-493)             *)
(***************************************************************************)
\* the configured capacity of the buffer (AIAgent(max_history=...))
max_history == 3

\* the last n items of a sequence
LastN(items, n) ==
    IF Len(items) <= n THEN items ELSE SubSeq(items, Len(items) - n + 1, Len(items))

\* An append to a list without a capacity.
AppendUnbounded(d, x, maxlen) == d \o <<x>>

\* deque.append on a deque(maxlen=maxlen): a full deque drops its left end
DequeAppend(d, x, maxlen) ==
    IF maxlen = 0 THEN d
    ELSE IF Len(d) >= maxlen THEN Tail(d) \o <<x>>
    ELSE d \o <<x>>

\* A turn recorded twice.
AddTwice(history, entry, maxlen) ==
    DequeAppend(DequeAppend(history, entry, maxlen), entry, maxlen)

\* _add_to_history (lines 417-433), maxlen being the capacity of the deque
_add_to_history(history, entry, maxlen) == DequeAppend(history, entry, maxlen)

\* A clear that leaves a deque one entry larger.
LargerAfterClear(maxlen, user_id) == maxlen + 1

\* the capacity of the deque after clear_history: the new deque of lines
\* 484-488 is made with maxlen=self.max_history, deque.clear() (line 491)
\* keeps the deque and its maxlen
MaxlenAfterClear(maxlen, user_id) == IF Truthy(user_id) THEN max_history ELSE maxlen

\* A clear that ignores whose history it was asked to clear.
ClearEveryone(history, user_id) == << >>

\* clear_history (lines 475-493)
clear_history(history, user_id) ==
    IF Truthy(user_id)
    THEN LET Others(entry) == entry.user_id # user_id
         IN  LastN(SelectSeq(history, Others), max_history)
    ELSE << >>

\* the argument limit: None, the default, or a number
NoLimit == [given |-> FALSE]
Limit(n) == [given |-> TRUE, value |-> n]

\* get_conversation_history (lines 450-473)
get_conversation_history(history, user_id, limit) ==
    LET Mine(entry) == entry.user_id = user_id
        filtered == IF Truthy(user_id) THEN SelectSeq(history, Mine) ELSE history
    IN  IF limit.given /\ limit.value # 0 THEN LastN(filtered, limit.value) ELSE filtered


(***************************************************************************)
(* Input validation (src/utils/validators.py)                              *)
(***************************************************************************)
\* Config.MAX_MESSAGE_LENGTH
MAX_MESSAGE_LENGTH == 5000

\* the longest user id validate_user_id accepts
MAX_USER_ID_LENGTH == 255

\* raise ValidationError(text)
Invalid(text) == [raised |-> TRUE, value |-> "ValidationError", text |-> text]

\* validate_message as it must not be: the message is returned untrimmed
ValidateUntrimmed(message, max_length) ==
    IF message = None \/ ~IsStr(message) \/ Strip(message) = << >>
    THEN Invalid(<<"M","e","s","s","a","g","e"," ","c","a","n","n","o","t"," ","b","e"," ","e","m","p","t","y">>)
    ELSE Return(<<TRUE, message>>)

\* ... and as it must not be: every message passes
AcceptMessage(message, max_length) == Return(<<TRUE, message>>)

\* after the message was found to be a string and trimmed (lines 41-53)
ValidateTrimmed(message, max_length) ==
    IF message = << >>
    THEN Invalid(<<"M","e","s","s","a","g","e"," ","c","a","n","n","o","t"," ","b","e"," ","e","m","p","t","y">>)
    ELSE IF Len(message) > max_length
    THEN Invalid(<<"M","e","s","s","a","g","e"," ","e","x","c","e","e","d","s"," ","m","a","x","i","m","u","m"," ","l","e","n","g","t","h"," ","o","f"," ">> \o NatToChars(max_length)
                    \o <<" ","c","h","a","r","a","c","t","e","r","s">>)
    ELSE Return(<<TRUE, message>>)

\* the argument max_length: None, the default, or a number
DefaultLength == [given |-> FALSE]
Length(n) == [given |-> TRUE, value |-> n]

\* lines 31-32
LimitOf(max_length) == IF max_length.given THEN max_length.value ELSE MAX_MESSAGE_LENGTH

\* validate_message(message, max_length)
validate_message(message, max_length) ==
    IF message = None
    THEN Invalid(<<"M","e","s","s","a","g","e"," ","c","a","n","n","o","t"," ","b","e"," ","N","o","n","e">>)
    ELSE IF ~IsStr(message)
    THEN Invalid(<<"M","e","s","s","a","g","e"," ","m","u","s","t"," ","b","e"," ","a"," ","s","t","r","i","n","g">>)
    ELSE ValidateTrimmed(Strip(message), LimitOf(max_length))

\* str.isalnum() of one character: the letters and digits of ASCII and, of
\* the characters beyond ASCII, the letter e with an acute accent
IsAlnum(c) ==
    \/ c \in DOMAIN LowerOf
    \/ c \in DOMAIN UpperOf
    \/ \E i \in 1..Len(Digits) : Digits[i] = c
    \/ c = "U+00E9"

\* the test of line 109
AllowedInUserId(c) == IsAlnum(c) \/ c \in {"-", "_"}

\* validate_user_id as it must not be: no limit on the length
ValidateAnyLength(user_id) ==
    IF ~Truthy(user_id) \/ ~IsStr(user_id) \/ Strip(user_id) = << >>
    THEN Invalid(<<"U","s","e","r"," ","I","D"," ","m","u","s","t"," ","b","e"," ","a"," ","n","o","n","-","e","m","p","t","y"," ","s","t","r","i","n","g">>)
    ELSE IF \E i \in 1..Len(Strip(user_id)) : ~AllowedInUserId(Strip(user_id)[i])
    THEN Invalid(<<"U","s","e","r"," ","I","D"," ","c","o","n","t","a","i","n","s"," ","i","n","v","a","l","i","d"," ","c","h","a","r","a","c","t","e","r","s">>)
    ELSE Return(<<TRUE, Strip(user_id)>>)

\* after the user id was found to be a string and trimmed (lines 102-112)
ValidateTrimmedId(user_id) ==
    IF user_id = << >>
    THEN Invalid(<<"U","s","e","r"," ","I","D"," ","c","a","n","n","o","t"," ","b","e"," ","e","m","p","t","y">>)
    ELSE IF Len(user_id) > MAX_USER_ID_LENGTH
    THEN Invalid(<<"U","s","e","r"," ","I","D"," ","e","x","c","e","e","d","s"," ","m","a","x","i","m","u","m"," ","l","e","n","g","t","h"," ","o","f"," ","2","5","5"," ","c","h","a","r","a","c","t","e","r","s">>)
    ELSE IF \E i \in 1..Len(user_id) : ~AllowedInUserId(user_id[i])
    THEN Invalid(<<"U","s","e","r"," ","I","D"," ","c","o","n","t","a","i","n","s"," ","i","n","v","a","l","i","d"," ","c","h","a","r","a","c","t","e","r","s">>)
    ELSE Return(<<TRUE, user_id>>)

\* validate_user_id(user_id)
validate_user_id(user_id) ==
    IF ~Truthy(user_id) \/ ~IsStr(user_id)
    THEN Invalid(<<"U","s","e","r"," ","I","D"," ","m","u","s","t"," ","b","e"," ","a"," ","n","o","n","-","e","m","p","t","y"," ","s","t","r","i","n","g">>)
    ELSE ValidateTrimmedId(Strip(user_id))

(***************************************************************************)
(* POST /api/chat (src/interfaces/web.py)                                  *)
(***************************************************************************)
\* a key the JSON body does not have
Absent == <<"absent">>

\* dict.get(key, default)
GetOr(value, default) == IF value = Absent THEN default ELSE value

\* the JSON object without a key; the other bodies are records of the four
\* keys read, location and context being None when the body has them not
EmptyObject == [isEmpty |-> TRUE]

\* `not data` (line 93): the body null, or an object without a key
EmptyBody(data) == data = NoDict \/ data = EmptyObject

\* line 105, after the message passed
ValidatedWith(message, user) ==
    IF user.raised THEN user ELSE Return([message |-> message, user_id |-> user.value[2]])

\* lines 103-105: the two validators, the message first
ValidateInputs(message, user_id) ==
    IF message.raised THEN message
    ELSE ValidatedWith(message.value[2], validate_user_id(user_id))

\* lines 98-105
ReadBody(data) ==
    ValidateInputs(validate_message(GetOr(data.message, << >>), DefaultLength),
                   GetOr(data.user_id, <<"d","e","f","a","u","l","t">>))
(***************************************************************************)
(* The state of a running agent                                            *)
(***************************************************************************)
VARIABLES
    status,                 \* AIAgent.status
    conversation_history,   \* AIAgent.conversation_history, oldest entry first
    deque_maxlen,           \* the maxlen of the deque that holds it
    calls,                  \* per request thread: the process_message call in flight
    returned,               \* what the operation that returned last gave its caller
    now                     \* the clock behind datetime.utcnow()

vars == <<status, conversation_history, deque_maxlen, calls, returned, now>>

\* the request threads: the command line has one, the web server several
Threads == {"t1", "t2"}

NoCall == [pc |-> "idle"]
NothingReturned == [op |-> "none"]

\* AIAgent.__init__ (lines 65-85), before any request
Init ==
    /\ status = "idle"
    /\ conversation_history = << >>
    /\ deque_maxlen = max_history
    /\ calls = [t \in Threads |-> NoCall]
    /\ returned = NothingReturned
    /\ now = 0

(***************************************************************************)
(* Bounds and inputs                                                       *)
(***************************************************************************)
\* how many process_message calls a behaviour completes
MaxTime == 4

U1 == <<"u","s","e","r","-","1">>
U2 == <<"u","s","e","r","_","2">>
Users == {U1, U2}

M_WeatherJokeBrooklyn == <<"T","e","l","l"," ","m","e"," ","a"," ","w","e","a","t","h","e","r"," ","j","o","k","e"," ","f","o","r"," ","B","r","o","o","k","l","y","n">>
M_WeatherInQueens == <<"w","e","a","t","h","e","r"," ","i","n"," ","Q","u","e","e","n","s",","," ","N","Y">>
M_JokeThenFollowUp == <<"W","e","a","t","h","e","r"," ","J","O","K","E"," ","a","n","d"," ","f","o","r"," ","B","r","o","n","x">>
M_Temperature == <<"W","h","a","t","'","s"," ","t","h","e"," ","t","e","m","p","e","r","a","t","u","r","e">>
M_ForecastManhattan == <<"f","o","r","e","c","a","s","t",":"," ","m","a","n","h","a","t","t","a","n"," ","w","e","a","t","h","e","r"," ","t","o","d","a","y">>
M_Joke == <<"T","e","l","l"," ","m","e"," ","a"," ","j","o","k","e">>
M_Hello == <<"H","e","l","l","o">>
M_Help == <<"h","e","l","p">>
M_News == <<"a","n","y"," ","n","e","w","s","?">>
M_Other == <<"H","o","w"," ","a","r","e"," ","y","o","u","?">>

Messages ==
    { M_WeatherJokeBrooklyn, M_WeatherInQueens, M_JokeThenFollowUp, M_Temperature,
      M_ForecastManhattan, M_Joke, M_Hello, M_Help, M_News, M_Other }

\* what process_message must refuse
BadMessages == { << >>, None, NotAString }

NoContext == NoDict
WeatherContext == [type |-> "weather"]
NewsContext == [type |-> "news"]
Contexts == {NoContext, WeatherContext, NewsContext}

\* the browser's location (latitude and longitude are floats, the city is
\* optional), a body with the city alone, and a body whose coordinates are
\* strings
L_QueensCity == [lat |-> FloatCoord(<<"4","0",".","7","3">>), lon |-> FloatCoord(<<"-","7","3",".","7","9">>),
                 city |-> <<"q","u","e","e","n","s">>]
L_Coordinates == [lat |-> FloatCoord(<<"4","0",".","7","3">>), lon |-> FloatCoord(<<"-","7","3",".","7","9">>),
                  city |-> None]
L_CityOnly == [lat |-> NoCoord, lon |-> NoCoord, city |-> <<"B","r","o","o","k","l","y","n">>]
L_Strings == [lat |-> StrCoord(<<"4","0",".","7","3">>), lon |-> StrCoord(<<"-","7","3",".","7","9">>), city |-> None]
Locations == {NoLocation, L_QueensCity, L_Coordinates, L_CityOnly, L_Strings}

\* the answers of the weather sources
Reading(kind, name, region, temp, temp_c, feels_like, condition, description) ==
    [kind |-> kind, name |-> name, region |-> region, temp |-> temp, temp_c |-> temp_c,
     feels_like |-> feels_like, condition |-> condition, description |-> description,
     humidity |-> 80, wind |-> 10]

OpenWeatherAnswer(kind) ==
    Reading(kind, <<"N","e","w"," ","Y","o","r","k">>, << >>, 65, 18, 63, <<"R","a","i","n">>, <<"l","i","g","h","t"," ","r","a","i","n">>)

WttrAnswer(kind, name) ==
    Reading(kind, name, <<"N","e","w"," ","Y","o","r","k">>, 58, 14, 58, << >>, <<"P","a","r","t","l","y"," ","c","l","o","u","d","y">>)

PrimaryAnswers == {OpenWeatherAnswer(k) : k \in SourceKinds}
SecondaryAnswers ==
    {WttrAnswer(k, <<"F","l","u","s","h","i","n","g">>) : k \in SourceKinds} \cup {WttrAnswer("ok", << >>)}

AllDown == [primary |-> OpenWeatherAnswer("timeout"), secondary |-> WttrAnswer("timeout", <<"F","l","u","s","h","i","n","g">>)]

\* the pairs of answers that lead to different runs: without a key the
\* primary source is never asked, and after its success neither is the second
WeatherAnswers(api_key) ==
    IF Truthy(api_key)
    THEN {[primary |-> p, secondary |-> s] :
            p \in PrimaryAnswers \ {OpenWeatherAnswer("ok")}, s \in SecondaryAnswers}
         \cup {[primary |-> OpenWeatherAnswer("ok"), secondary |-> WttrAnswer("timeout", <<"F","l","u","s","h","i","n","g">>)]}
    ELSE {[primary |-> OpenWeatherAnswer("timeout"), secondary |-> s] : s \in SecondaryAnswers}

ApiKeys == {None, <<"k","e","y">>}

\* the answers of the news sources
Entry(n) ==
    [title |-> <<"H","e","a","d","l","i","n","e"," ">> \o IntToChars(n), description |-> <<"T","e","x","t">>,
     url |-> <<"h","t","t","p","s",":","/","/","e","x","a","m","p","l","e",".","o","r","g","/">> \o IntToChars(n), source |-> <<"F","e","e","d">>]

FeedAnswer(kind) == [kind |-> kind, entries |-> IF kind = "ok" THEN <<Entry(1), Entry(2)>> ELSE << >>]

NoArticles(kind) == [kind |-> kind, articles |-> << >>]

FeedsDown == <<FeedAnswer("error"), FeedAnswer("bozo"), FeedAnswer("empty")>>

NewsDown ==
    [api_key |-> None, newsapi |-> NoArticles("network_error"),
     local_newsapi |-> NoArticles("network_error"), local_feeds |-> FeedsDown,
     feeds |-> <<FeedAnswer("error"), FeedAnswer("bozo"), FeedAnswer("empty")>>]

NewsSecondFeed ==
    [api_key |-> None, newsapi |-> NoArticles("network_error"),
     local_newsapi |-> NoArticles("network_error"), local_feeds |-> FeedsDown,
     feeds |-> <<FeedAnswer("error"), FeedAnswer("ok"), FeedAnswer("ok")>>]

NewsAnswers == {NewsDown, NewsSecondFeed}

\* the answers of the news sources when get_headlines is called on its own
Removed ==
    [title |-> <<"[","R","e","m","o","v","e","d","]">>, description |-> << >>, url |-> << >>, source |-> <<"U","n","k","n","o","w","n">>]

NewsApiAnswers ==
    { NoArticles("network_error"), NoArticles("http_error"), NoArticles("ok"),
      [kind |-> "ok", articles |-> <<Removed>>],
      [kind |-> "ok", articles |-> <<Entry(1), Removed, Entry(2)>>] }

LocalNewsApiAnswers ==
    { NoArticles("network_error"), NoArticles("http_error"), NoArticles("ok"),
      [kind |-> "ok", articles |-> <<Entry(3)>>] }

FeedAnswers == { FeedsDown, <<FeedAnswer("error"), FeedAnswer("ok"), FeedAnswer("ok")>> }

LocalFeedAnswers == { FeedsDown, <<FeedAnswer("bozo"), FeedAnswer("error"), FeedAnswer("ok")>> }

\* answers of a feed: the request raises, the feed does not parse (though it
\* has an entry), it has no entries, it has two
FeedKinds ==
    { FeedAnswer("error"), [kind |-> "bozo", entries |-> <<Entry(1)>>],
      FeedAnswer("empty"), FeedAnswer("ok") }

\* lists of one to MaxFeeds feeds
MaxFeeds == 3

FeedLists == UNION {[1..n -> FeedKinds] : n \in 1..MaxFeeds}

NewsOutcomes ==
    {[api_key |-> k, newsapi |-> a, local_newsapi |-> la, feeds |-> f, local_feeds |-> lf] :
        k \in ApiKeys, a \in NewsApiAnswers, la \in LocalNewsApiAnswers,
        f \in FeedAnswers, lf \in LocalFeedAnswers}

\* the limits asked for
MaxLimit == 2

\* the places asked for: location, city and state
Places ==
    { [location |-> None, city |-> None, state |-> None],
      [location |-> <<"Q","u","e","e","n","s",","," ","N","Y">>, city |-> None, state |-> None],
      [location |-> <<"P","a","r","i","s">>, city |-> None, state |-> None],
      [location |-> None, city |-> <<"N","e","w"," ","Y","o","r","k">>, state |-> <<"N","Y">>] }

\* every outcome of the world during one call
Outcomes(keys, picks, news) ==
    UNION {{[api_key |-> k, weather |-> w, pick |-> p, news |-> n, news_again |-> n2] :
                w \in WeatherAnswers(k), p \in picks, n \in news, n2 \in news} :
           k \in keys}


\* the arguments of the validators: strings of up to MaxLen + 1 letters and
\* strings around the limits of the source, bare and padded with whitespace
MaxLen == 3

Repeat(c, n) == << >> \o [i \in 1..n |-> c]

Paddings == { << >>, <<" ">>, <<"\t", "\n">> }

Padded(cores) == { l \o core \o r : l \in Paddings, core \in cores, r \in Paddings }

MessageCores ==
    { Repeat("a", n) : n \in 0..(MaxLen + 1) }
        \cup { <<"a"," ","b">>, Repeat("a", MAX_MESSAGE_LENGTH), Repeat("a", MAX_MESSAGE_LENGTH + 1) }

MessageInputs == { None, NotAString } \cup Padded(MessageCores)

MaxLengths == { DefaultLength } \cup { Length(n) : n \in 0..MaxLen }

UserIdCores ==
    { << >>, <<"a">>, U1, U2, <<"u","s","e","r"," ","n","a","m","e">>, <<"u","s","e","r","@","1","2","3">>, <<"r", "U+00E9", "1">>, <<"-">>,
      Repeat("a", MAX_USER_ID_LENGTH), Repeat("a", MAX_USER_ID_LENGTH + 1) }

UserIdInputs == { None, NotAString } \cup Padded(UserIdCores)

\* the bodies posted to /api/chat
ChatMessages ==
    { Absent, None, NotAString, << >>, <<"\t", "\n">>, Repeat("a", MAX_MESSAGE_LENGTH + 1),
      <<" ","H","e","l","l","o"," ">>, M_WeatherInQueens }

ChatUserIds ==
    { Absent, None, NotAString, << >>, <<" ">>, <<"u","s","e","r"," ","n","a","m","e">>, <<"u","s","e","r","@","1","2","3">>,
      Repeat("a", MAX_USER_ID_LENGTH + 1), U1, <<" ","u","s","e","r","_","2"," ">> }

\* each of the two inputs varied with the other one good
ChatBodies ==
    { NoDict, EmptyObject }
        \cup { [message |-> m, user_id |-> U1, location |-> NoLocation,
                context |-> NoContext] : m \in ChatMessages }
        \cup { [message |-> <<" ","H","e","l","l","o"," ">>, user_id |-> u, location |-> NoLocation,
                context |-> NoContext] : u \in ChatUserIds }
        \cup { [message |-> M_WeatherInQueens, user_id |-> U1, location |-> L_Strings,
                context |-> NoContext] }

\* the spellings of a gazetteer place: letter case, whitespace around,
\* a state after a comma and the whitespace after that comma
Cased(how, s) ==
    << >> \o [i \in 1..Len(s) |->
                IF how = "upper" \/ (how = "mixed" /\ i % 2 = 1) THEN UpperChar(s[i])
                ELSE s[i]]

StateTails ==
    { << >> } \cup { sep \o state : sep \in { <<",">>, <<","," ">>, <<",", "\t", " ">> },
                                    state \in { <<"n","y">>, <<"n","j">> } }

Spellings(name) ==
    { l \o Cased(how, name \o tail) \o r :
         how \in {"lower", "upper", "mixed"}, tail \in StateTails,
         l \in Paddings, r \in Paddings }

\* places the gazetteer does not have
UnknownPlaces ==
    Padded({ <<"p","a","r","i","s">>, <<"p","a","r","i","s",",","f","r","a","n","c","e">>, <<"N","E","W"," ","j","e","r","s","e","y">>, <<"w","i","n","s","t","o","n","-","s","a","l","e","m"," ",","," "," ","n","c">>,
             <<"s","a","n"," "," ","j","o","s","e">>, <<"o","'","f","a","l","l","o","n",","," ","M","O">>, <<"l","i","t","t","l","e"," "," ","n","e","c","k">>, << >> })

\* messages for parse_location_from_message: an opening, a clause about the
\* weather, a place (or a word that is none) and an end
ParseOpenings ==
    { << >>, <<"W","h","a","t","'","s"," ","t","h","e"," ">>, <<"t","e","l","l"," ","m","e"," ">>, <<"N","Y","C"," ">>, <<"t","h","e"," ">>, <<"S","h","o","w"," ","m","e"," ","a"," ">> }

ParseClauses ==
    { <<"w","e","a","t","h","e","r"," ","i","n"," ">>, <<"W","e","a","t","h","e","r"," ","f","o","r"," ">>, <<"w","e","a","t","h","e","r"," ","a","t","\t">>, <<"w","e","a","t","h","e","r"," ">>, <<"f","o","r","e","c","a","s","t"," ","i","n"," ">> }

ParsePlaces ==
    { <<"Q","u","e","e","n","s",","," ","N","Y">>, <<"L","A">>, <<"t","h","e">>, <<"p","a","r","i","s"," ","t","o","d","a","y">>, <<"i","t">>, <<"w","h","a","t">>, << >> }

ParseEnds == { << >>, <<"?">>, <<" ","j","o","k","e">>, <<"!">>, <<" ","w","e","a","t","h","e","r"," ","n","o","w",".">> }

ParseMessages ==
    { o \o c \o p \o e :
         o \in ParseOpenings, c \in ParseClauses, p \in ParsePlaces, e \in ParseEnds }

(***************************************************************************)
(* The operations                                                          *)
(***************************************************************************)
\* A check of the message placed after the status is set.
InvalidAfterStatus(t, message, user_id, location, context) ==
    /\ calls[t] = NoCall
    /\ now < MaxTime
    /\ InvalidMessage(message)
    /\ status' = "processing"
    /\ returned' = [op |-> "process_message", raised |-> TRUE, value |-> "ValueError",
                    message |-> message, user_id |-> user_id, before |-> conversation_history,
                    status_before |-> status]
    /\ UNCHANGED <<conversation_history, calls, now, deque_maxlen>>

\* process_message with a message that is not a non-empty string (line 146):
\* ValueError, before anything else
ProcessMessageInvalid(t, message, user_id, location, context) ==
    /\ calls[t] = NoCall
    /\ now < MaxTime
    /\ InvalidMessage(message)
    /\ returned' = [op |-> "process_message", raised |-> TRUE, value |-> "ValueError",
                    message |-> message, user_id |-> user_id, before |-> conversation_history,
                    status_before |-> status]
    /\ UNCHANGED <<status, conversation_history, calls, now, deque_maxlen>>

\* process_message up to its first await (lines 146-150): the arguments are
\* checked, and the call is under way
ProcessMessageStart(t, message, user_id, location, context) ==
    /\ calls[t] = NoCall
    /\ now < MaxTime
    /\ ~InvalidMessage(message)
    /\ status' = "processing"
    /\ calls' = [calls EXCEPT ![t] =
                    [pc |-> "running", message |-> message, user_id |-> user_id,
                     location |-> location, context |-> context]]
    /\ UNCHANGED <<conversation_history, returned, now, deque_maxlen>>

\* deque.append while iterators are open on the deque: each of them finds
\* the deque mutated at its next step (the deque's state counter moved)
Mutated(in_flight) ==
    [t \in DOMAIN in_flight |->
        IF in_flight[t].pc = "clearing" /\ in_flight[t].current
        THEN [in_flight[t] EXCEPT !.mutated = TRUE]
        ELSE in_flight[t]]

\* self.conversation_history bound to another deque: the open iterators stay
\* on the deque they were made for, which nothing appends to any more
Rebound(in_flight) ==
    [t \in DOMAIN in_flight |->
        IF in_flight[t].pc = "clearing"
        THEN [in_flight[t] EXCEPT !.current = FALSE]
        ELSE in_flight[t]]

\* An except clause that also empties the history.
FinishForgetful(t, io, r) ==
    /\ IF r.raised
       THEN /\ status' = "error"
            /\ calls' = [calls EXCEPT ![t] = NoCall]
            /\ conversation_history' = << >>
       ELSE /\ conversation_history' = _add_to_history(conversation_history, r.entry,
                                                          deque_maxlen)
            /\ calls' = Mutated([calls EXCEPT ![t] = NoCall])
            /\ status' = "idle"
    /\ returned' = [op |-> "process_message", raised |-> FALSE,
                    value |-> IF r.raised THEN ErrorReply(calls[t], now) ELSE r.value,
                    message |-> calls[t].message, user_id |-> calls[t].user_id,
                    location |-> calls[t].location, context |-> calls[t].context,
                    failed |-> r.raised, io |-> io,
                    effective |-> r.effective, rule |-> r.rule, calls |-> r.calls,
                    before |-> conversation_history]

\* lines 218-233: the end of the call of thread t, r being the outcome of
\* the try block
Finish(t, io, r) ==
    /\ IF r.raised
       THEN /\ status' = "error"
            /\ calls' = [calls EXCEPT ![t] = NoCall]
            /\ UNCHANGED conversation_history
       ELSE /\ conversation_history' = _add_to_history(conversation_history, r.entry,
                                                          deque_maxlen)
            /\ calls' = Mutated([calls EXCEPT ![t] = NoCall])
            /\ status' = "idle"
    /\ returned' = [op |-> "process_message", raised |-> FALSE,
                    value |-> IF r.raised THEN ErrorReply(calls[t], now) ELSE r.value,
                    message |-> calls[t].message, user_id |-> calls[t].user_id,
                    location |-> calls[t].location, context |-> calls[t].context,
                    failed |-> r.raised, io |-> io,
                    effective |-> r.effective, rule |-> r.rule, calls |-> r.calls,
                    before |-> conversation_history]

\* process_message from there to its return (lines 152-233), the world
\* answering with io
ProcessMessageFinish(t, io) ==
    /\ calls[t].pc = "running"
    /\ Finish(t, io, TryBlock(calls[t], io, now))
    /\ now' = now + 1
    /\ UNCHANGED deque_maxlen

\* clear_history(user_id)
ClearHistory(user_id) ==
    /\ conversation_history' = clear_history(conversation_history, user_id)
    /\ returned' = [op |-> "clear_history", user_id |-> user_id,
                    before |-> conversation_history]
    /\ deque_maxlen' = MaxlenAfterClear(deque_maxlen, user_id)
    /\ UNCHANGED <<status, calls, now>>

\* get_conversation_history(user_id, limit)
GetConversationHistory(user_id, limit) ==
    /\ returned' = [op |-> "get_conversation_history", user_id |-> user_id, limit |-> limit,
                    value |-> get_conversation_history(conversation_history, user_id, limit),
                    before |-> conversation_history]
    /\ UNCHANGED <<status, conversation_history, calls, now, deque_maxlen>>

\* get_status() (lines 435-448)
GetStatus ==
    /\ returned' = [op |-> "get_status",
                    value |-> [status |-> status,
                               conversation_count |-> Len(conversation_history),
                               max_history |-> max_history]]
    /\ UNCHANGED <<status, conversation_history, calls, now, deque_maxlen>>

\* WeatherService.get_weather called on its own
GetWeather(api_key, city, lat, lon, net) ==
    /\ returned = NothingReturned
    /\ returned' = [op |-> "get_weather", api_key |-> api_key, city |-> city,
                    lat |-> lat, lon |-> lon, net |-> net,
                    result |-> get_weather(api_key, city, lat, lon, net)]
    /\ UNCHANGED <<status, conversation_history, calls, now, deque_maxlen>>

\* NewsService._fetch_from_rss called on its own
FetchFromRss(limit, feeds) ==
    /\ returned = NothingReturned
    /\ returned' = [op |-> "_fetch_from_rss", limit |-> limit, feeds |-> feeds,
                    result |-> _fetch_from_rss(limit, feeds)]
    /\ UNCHANGED <<status, conversation_history, calls, now, deque_maxlen>>

\* NewsService.get_headlines called on its own
GetHeadlines(limit, place, news) ==
    /\ returned = NothingReturned
    /\ returned' = [op |-> "get_headlines", limit |-> limit, place |-> place, news |-> news,
                    result |-> get_headlines(limit, place.location, place.city, place.state,
                                             news)]
    /\ UNCHANGED <<status, conversation_history, calls, now, deque_maxlen>>

\* clear_history(user_id) in a request thread of the web server, other
\* threads running between its steps.  Lines 484-485: the generator is made
\* over an iterator of the deque as it is now.
ClearHistoryStart(t, user_id) ==
    /\ calls[t] = NoCall
    /\ Truthy(user_id)
    /\ calls' = [calls EXCEPT ![t] =
                    [pc |-> "clearing", user_id |-> user_id, before |-> conversation_history,
                     i |-> 0, mutated |-> FALSE, current |-> TRUE]]
    /\ UNCHANGED <<status, conversation_history, returned, now, deque_maxlen>>

\* deque(...) draws the next entry from the generator; the deque was not
\* appended to since the iterator was made
ClearHistoryNext(t) ==
    /\ calls[t].pc = "clearing"
    /\ calls[t].i < Len(calls[t].before)
    /\ ~calls[t].mutated
    /\ calls' = [calls EXCEPT ![t].i = @ + 1]
    /\ UNCHANGED <<status, conversation_history, returned, now, deque_maxlen>>

\* ... it was appended to, and entries are left to draw: the iterator raises
\* RuntimeError("deque mutated during iteration"), which clear_history lets
\* through
ClearHistoryMutated(t) ==
    /\ calls[t].pc = "clearing"
    /\ calls[t].i < Len(calls[t].before)
    /\ calls[t].mutated
    /\ calls' = [calls EXCEPT ![t] = NoCall]
    /\ returned' = [op |-> "clear_history", raised |-> TRUE, value |-> "RuntimeError",
                    user_id |-> calls[t].user_id, before |-> conversation_history]
    /\ UNCHANGED <<status, conversation_history, now, deque_maxlen>>

\* ... no entry is left to draw (the iterator does not look at the deque
\* again): the new deque is bound to self.conversation_history (line 484)
ClearHistoryAssign(t) ==
    /\ calls[t].pc = "clearing"
    /\ calls[t].i = Len(calls[t].before)
    /\ conversation_history' = clear_history(calls[t].before, calls[t].user_id)
    /\ calls' = Rebound([calls EXCEPT ![t] = NoCall])
    /\ returned' = [op |-> "clear_history", raised |-> FALSE, value |-> None,
                    user_id |-> calls[t].user_id, before |-> conversation_history]
    /\ deque_maxlen' = MaxlenAfterClear(deque_maxlen, calls[t].user_id)
    /\ UNCHANGED <<status, now>>

(***************************************************************************)
(* Spec: a session.  One request at a time, a few messages, every source   *)
(* of the weather down; the history and the status are what varies.        *)
(***************************************************************************)
SessionRequests ==
    { [message |-> M_Hello, location |-> NoLocation, context |-> NoContext],
      [message |-> M_WeatherInQueens, location |-> NoLocation, context |-> WeatherContext],
      [message |-> M_WeatherInQueens, location |-> L_Strings, context |-> NoContext] }
SessionOutcomes ==
    {[api_key |-> None, weather |-> AllDown, pick |-> 0, news |-> NewsDown,
      news_again |-> NewsDown]}
BadRequests ==
    {[message |-> m, location |-> NoLocation, context |-> NoContext] : m \in BadMessages}
OptionalUsers == Users \cup {None, << >>}

Next ==
    \/ \E r \in SessionRequests \cup BadRequests, u \in Users :
          ProcessMessageInvalid("t1", r.message, u, r.location, r.context)
    \/ \E r \in SessionRequests \cup BadRequests, u \in Users :
          ProcessMessageStart("t1", r.message, u, r.location, r.context)
    \/ \E io \in SessionOutcomes : ProcessMessageFinish("t1", io)
    \/ \E u \in OptionalUsers : ClearHistory(u)
    \/ \E u \in {None, U1}, limit \in {NoLimit} \cup {Limit(n) : n \in 0..2} :
          GetConversationHistory(u, limit)
    \/ GetStatus

Spec == Init /\ [][Next]_vars

(***************************************************************************)
(* SpecDispatch: the first message of a fresh agent, over every message,   *)
(* location, context and outcome of the sources.                           *)
(***************************************************************************)
\* the answers of the weather sources, the random draws and the answers of
\* the news sources, each varied with the others held
DispatchOutcomes ==
    Outcomes(ApiKeys, {0}, {NewsDown})
        \cup Outcomes({None}, 0..5, {NewsDown})
        \cup {o \in Outcomes({None}, {0}, NewsAnswers) : o.weather = AllDown}

NextDispatch ==
    \/ \E m \in Messages \cup BadMessages, l \in Locations, c \in Contexts :
          now = 0 /\ returned = NothingReturned /\ ProcessMessageInvalid("t1", m, U1, l, c)
    \/ \E m \in Messages \cup BadMessages, l \in Locations, c \in Contexts :
          now = 0 /\ returned = NothingReturned /\ ProcessMessageStart("t1", m, U1, l, c)
    \/ \E io \in DispatchOutcomes : ProcessMessageFinish("t1", io)

SpecDispatch == Init /\ [][NextDispatch]_vars

(***************************************************************************)
(* SpecWeather: the weather service called on its own.                     *)
(***************************************************************************)
Cities ==
    { DEFAULT_LOCATION, <<"L","i","t","t","l","e"," ","N","e","c","k",","," ","N","Y">>, <<"b","r","o","o","k","l","y","n">>, <<"p","a","r","i","s">>, <<"n","e","w"," ","y","o","r","k"," ","c","i","t","y">>, << >> }

Coordinates == {NoCoord, FloatCoord(<<"4","8",".","8","6">>), StrCoord(<<"4","8",".","8","6">>)}

NextWeather ==
    \E k \in ApiKeys, city \in Cities, c \in Coordinates :
        \E net \in WeatherAnswers(k) : GetWeather(k, city, c, c, net)

SpecWeather == Init /\ [][NextWeather]_vars


(***************************************************************************)
(* SpecNews: the news service called on its own.                           *)
(***************************************************************************)
NextNews ==
    \/ \E limit \in 0..MaxLimit, place \in Places, news \in NewsOutcomes :
          GetHeadlines(limit, place, news)
    \/ \E limit \in 0..MaxLimit, feeds \in FeedLists : FetchFromRss(limit, feeds)

SpecNews == Init /\ [][NextNews]_vars

(***************************************************************************)
(* SpecThreads: the web server, its request threads sharing the agent.     *)
(* Requests to chat and to clear the history of a user overlap.            *)
(***************************************************************************)
NextThreads ==
    \/ \E t \in Threads, u \in Users :
          ProcessMessageStart(t, M_Hello, u, NoLocation, NoContext)
    \/ \E t \in Threads, io \in SessionOutcomes : ProcessMessageFinish(t, io)
    \/ \E t \in Threads, u \in Users : ClearHistoryStart(t, u)
    \/ \E t \in Threads : ClearHistoryNext(t)
    \/ \E t \in Threads : ClearHistoryMutated(t)
    \/ \E t \in Threads : ClearHistoryAssign(t)

SpecThreads == Init /\ [][NextThreads]_vars

(***************************************************************************)
(* SpecWeb: requests to POST /api/chat, one at a time.                     *)
(***************************************************************************)
\* the handler answers without calling the agent
Answer400(data, error) ==
    /\ returned' = [op |-> "chat", answered |-> TRUE, code |-> 400, error |-> error,
                    body |-> data, before |-> conversation_history,
                    status_before |-> status]
    /\ UNCHANGED <<status, conversation_history, calls, now, deque_maxlen>>

\* lines 113-119: process_message is called with the validated inputs and
\* runs to its first await; a ValueError of its line 146 is caught at line
\* 125 and answered 500
CallAgent(t, data, inputs) ==
    IF InvalidMessage(inputs.message)
    THEN /\ returned' = [op |-> "chat", answered |-> TRUE, code |-> 500,
                         error |-> <<"I","n","t","e","r","n","a","l"," ","s","e","r","v","e","r"," ","e","r","r","o","r">>, body |-> data,
                         before |-> conversation_history, status_before |-> status]
         /\ UNCHANGED <<status, conversation_history, calls, now, deque_maxlen>>
    ELSE /\ status' = "processing"
         /\ calls' = [calls EXCEPT ![t] =
                        [pc |-> "running", message |-> inputs.message,
                         user_id |-> inputs.user_id,
                         location |-> data.location, context |-> data.context]]
         /\ returned' = [op |-> "chat", answered |-> FALSE, body |-> data,
                         before |-> conversation_history, status_before |-> status]
         /\ UNCHANGED <<conversation_history, now, deque_maxlen>>

\* lines 102-119, r being the outcome of the validation
AfterValidation(t, data, r) ==
    IF r.raised THEN Answer400(data, r.text) ELSE CallAgent(t, data, r.value)

\* chat() up to the first await of process_message (lines 90-119)
Chat(t, data) ==
    /\ calls[t] = NoCall
    /\ now < MaxTime
    /\ IF EmptyBody(data)
       THEN Answer400(data, <<"I","n","v","a","l","i","d"," ","J","S","O","N"," ","b","o","d","y">>)
       ELSE AfterValidation(t, data, ReadBody(data))

NextWeb ==
    \/ \E data \in ChatBodies : Chat("t1", data)
    \/ \E io \in SessionOutcomes : ProcessMessageFinish("t1", io)

SpecWeb == Init /\ [][NextWeb]_vars

(***************************************************************************)
(* SpecValidate: the validators called on their own.                       *)
(***************************************************************************)
ValidateMessage(message, max_length) ==
    /\ returned = NothingReturned
    /\ returned' = [op |-> "validate_message", message |-> message,
                    max_length |-> max_length,
                    result |-> validate_message(message, max_length)]
    /\ UNCHANGED <<status, conversation_history, calls, now, deque_maxlen>>

ValidateUserId(user_id) ==
    /\ returned = NothingReturned
    /\ returned' = [op |-> "validate_user_id", user_id |-> user_id,
                    result |-> validate_user_id(user_id)]
    /\ UNCHANGED <<status, conversation_history, calls, now, deque_maxlen>>

NextValidate ==
    \/ \E message \in MessageInputs, max_length \in MaxLengths :
          ValidateMessage(message, max_length)
    \/ \E user_id \in UserIdInputs : ValidateUserId(user_id)

SpecValidate == Init /\ [][NextValidate]_vars

(***************************************************************************)
(* SpecFormat: _format_location_name called on its own.  place is the      *)
(* position in the gazetteer of the place spelled, 0 for another place.    *)
(***************************************************************************)
FormatLocationName(place, location) ==
    /\ returned = NothingReturned
    /\ returned' = [op |-> "_format_location_name", place |-> place,
                    location |-> location, value |-> _format_location_name(location)]
    /\ UNCHANGED <<status, conversation_history, calls, now, deque_maxlen>>

NextFormat ==
    \/ \E place \in 1..Len(GazetteerNames) :
          \E location \in Spellings(GazetteerNames[place]) :
             FormatLocationName(place, location)
    \/ \E location \in UnknownPlaces : FormatLocationName(0, location)

SpecFormat == Init /\ [][NextFormat]_vars

(***************************************************************************)
(* SpecParse: parse_location_from_message called on its own.               *)
(***************************************************************************)
ParseLocationFromMessage(message) ==
    /\ returned = NothingReturned
    /\ returned' = [op |-> "parse_location_from_message", message |-> message,
                    groups |-> PatternGroups(Lower(message)),
                    value |-> parse_location_from_message(message)]
    /\ UNCHANGED <<status, conversation_history, calls, now, deque_maxlen>>

NextParse == \E message \in ParseMessages : ParseLocationFromMessage(message)

SpecParse == Init /\ [][NextParse]_vars


(***************************************************************************)
(* Properties                                                              *)
(***************************************************************************)
\* the last operation was a process_message call that returned a reply
Replied == returned.op = "process_message" /\ ~returned.raised

\* ... and no exception was caught on the way
Succeeded == Replied /\ ~returned.failed

\* the last entry of the history buffer
LastEntry == conversation_history[Len(conversation_history)]

SnapshotFields ==
    {"temperature_f", "temperature_c", "feels_like_f", "condition", "description",
     "humidity", "wind_speed", "location"}

\* C1 (SpecDispatch): a message that contains both "weather" and "joke", in
\* any letter case, is answered by the combined weather-joke rule (the first
\* of the list), whatever the location and the context are.
C1_CombinedHandlerAlways ==
    (/\ Replied
     /\ Contains(Lower(returned.message), K_weather)
     /\ Contains(Lower(returned.message), K_joke))
        => returned.rule = 1

\* C2 (Spec): the history never holds more than max_history entries, its
\* entries are in the order of their insertion, and a successful call leaves
\* the last max_history entries of the history before it followed by its own
\* entry: what is dropped is the oldest entry.
C2_BoundedFifo ==
    /\ Len(conversation_history) <= max_history
    /\ \A i \in 1..(Len(conversation_history) - 1) :
          conversation_history[i].timestamp < conversation_history[i + 1].timestamp
    /\ Succeeded =>
          /\ conversation_history # << >>
          /\ LastEntry.timestamp = returned.value.timestamp
          /\ conversation_history = LastN(returned.before \o <<LastEntry>>, max_history)

\* a call answered on a full buffer: the oldest entry went, the others moved up
C2_Witness ==
    /\ Succeeded
    /\ Len(returned.before) = max_history
    /\ conversation_history = Tail(returned.before) \o <<LastEntry>>
    /\ LastEntry.timestamp = returned.value.timestamp

\* C3 (Spec): clear_history(user_id=U) with a non-empty U leaves exactly the
\* entries of the other users, in the order they had.
C3_ClearForUser ==
    (returned.op = "clear_history" /\ IsStr(returned.user_id) /\ returned.user_id # << >>)
        => conversation_history =
              SelectSeq(returned.before, LAMBDA entry : entry.user_id # returned.user_id)

\* the entry of user-1 taken out from between two entries of the other user
C3_Witness ==
    /\ returned.op = "clear_history"
    /\ returned.user_id = U1
    /\ Len(returned.before) = 3
    /\ returned.before[1].user_id = U2
    /\ returned.before[2].user_id = U1
    /\ returned.before[3].user_id = U2
    /\ conversation_history = <<returned.before[1], returned.before[3]>>

C5_ErrorStatus ==
    [][/\ (now' # now) =>
            /\ returned'.op = "process_message"
            /\ ~returned'.raised
            /\ IF returned'.failed
               THEN /\ status' = "error"
                    /\ returned'.value.type = "error"
                    /\ returned'.value.content
                          = <<"I"," ","e","n","c","o","u","n","t","e","r","e","d"," ","a","n"," ","e","r","r","o","r"," ","p","r","o","c","e","s","s","i","n","g"," ","y","o","u","r"," ","m","e","s","s","a","g","e","."," ","P","l","e","a","s","e"," ","t","r","y"," ","a","g","a","i","n",".">>
                    /\ returned'.value.user_id = returned'.user_id
               ELSE /\ status' = "idle"
                    /\ returned'.value.type = "chat"
       /\ (now' = now /\ calls' = calls) => status' = status]_vars

\* the status read as "error" after a call failed and the history was cleared
C5_Witness ==
    /\ status = "error"
    /\ returned.op = "get_status"
    /\ returned.value.status = "error"
    /\ now > 0

\* C6 (Spec): process_message with "" or None raises ValueError and changes
\* neither the history nor the status nor the calls in flight.
C6_InvalidRejected ==
    [][(/\ returned' # returned
        /\ returned'.op = "process_message"
        /\ returned'.message \in {<< >>, None})
          => /\ returned'.raised
             /\ returned'.value = "ValueError"
             /\ UNCHANGED <<status, conversation_history, calls>>]_vars

\* None refused while the status is "error" and the history holds a turn
C6_Witness ==
    /\ returned.op = "process_message"
    /\ returned.raised
    /\ returned.message = None
    /\ returned.status_before = "error"
    /\ status = "error"
    /\ returned.before # << >>
    /\ conversation_history = returned.before

\* C7 (SpecDispatch): "Tell me a weather joke for Brooklyn" without location
\* or context, every source of the weather down: the reply names Brooklyn,
\* and the history holds the one entry of the caller.
C7_BrooklynJoke ==
    (/\ Replied
     /\ returned.message = M_WeatherJokeBrooklyn
     /\ returned.location = NoLocation
     /\ returned.context = NoContext
     /\ returned.io.weather = AllDown)
        => /\ ~returned.failed
           /\ Contains(returned.value.content, <<"B","r","o","o","k","l","y","n">>)
           /\ Len(conversation_history) = 1
           /\ conversation_history[1].user_id = returned.user_id

\* C8 (SpecDispatch): a weather request that names a place, in location.city
\* or in the message, is answered with that place under its normalized
\* name, in the snapshot of the metadata and in the text.
RequestedPlace ==
    IF Truthy(returned.location.city) THEN returned.location.city
    ELSE parse_location_from_message(returned.message)

C8_RequestedPlaceShown ==
    (/\ Succeeded
     /\ returned.rule \in {1, 2}
     /\ returned.context = NoContext
     /\ RequestedPlace # None)
        => /\ returned.value.metadata.weather.location = _format_location_name(RequestedPlace)
           /\ Contains(returned.value.content, _format_location_name(RequestedPlace))

\* C9 (SpecWeather): get_weather returns a snapshot whatever the two sources
\* do, and the static fallback when neither of them answers.
TotalFailure ==
    /\ returned.op = "get_weather"
    /\ returned.net.secondary.kind # "ok"
    /\ (Truthy(returned.api_key) => returned.net.primary.kind # "ok")

C9_NeverRaises ==
    returned.op = "get_weather"
        => /\ ~returned.result.raised
           /\ DOMAIN returned.result.value = SnapshotFields
           /\ TotalFailure => returned.result.value = _get_fallback_weather

\* an unreadable body from the first source, a status other than 200 from
\* the second
C9_Witness ==
    /\ TotalFailure
    /\ Truthy(returned.api_key)
    /\ returned.net.primary.kind = "bad_payload"
    /\ returned.net.secondary.kind = "http_error"
    /\ ~returned.result.raised

\* C10 (SpecWeather): when no source answers, the snapshot has its eight
\* fields, 72 degrees Fahrenheit, the condition Clear, 50% humidity and the
\* default location under its display name.
C10_FallbackSnapshot ==
    TotalFailure
        => /\ DOMAIN returned.result.value = SnapshotFields
           /\ returned.result.value.temperature_f = 72
           /\ returned.result.value.condition = <<"C","l","e","a","r">>
           /\ returned.result.value.humidity = 50
           /\ returned.result.value.location = <<"Q","u","e","e","n","s",","," ","N","Y">>
           /\ returned.result.value.location = _format_location_name(DEFAULT_LOCATION)

\* Paris asked for, nothing answers: the snapshot is the one of Queens
C10_Witness ==
    /\ TotalFailure
    /\ returned.city = <<"p","a","r","i","s">>
    /\ returned.result.value.location = <<"Q","u","e","e","n","s",","," ","N","Y">>
    /\ returned.result.value.temperature_f = 72

\* the last operation was get_headlines, called for a place
HeadlinesReturned == returned.op = "get_headlines"

PlaceGiven ==
    /\ HeadlinesReturned
    /\ LocalQuery(returned.place.location, returned.place.city, returned.place.state) # None

\* source is among the sources asked during the call
Asked(source) ==
    \E i \in 1..Len(returned.result.attempts) : returned.result.attempts[i] = source

\* no source has an answer with articles
EverySourceFails ==
    /\ HeadlinesReturned
    /\ returned.news.newsapi.kind # "ok"
    /\ returned.news.local_newsapi.kind # "ok"
    /\ \A i \in 1..Len(returned.news.feeds) : returned.news.feeds[i].kind # "ok"
    /\ \A i \in 1..Len(returned.news.local_feeds) : returned.news.local_feeds[i].kind # "ok"

\* C11 (SpecNews): get_headlines returns at most `limit` articles, for every
\* limit from 0 on, every place and every outcome of the sources.
C11_AtMostLimit ==
    HeadlinesReturned
        => /\ ~returned.result.raised
           /\ Len(returned.result.value) <= returned.limit

\* C12 (SpecNews): with a place given, a local source that yields nothing or
\* fails is followed by a general source, and the fallback article comes
\* only after the general feeds were asked.
C12_GeneralBeforeFallback ==
    PlaceGiven
        => /\ Asked("fallback") => Asked("rss")
           /\ (/\ Asked("local_rss")
               /\ returned.result.attempts[Len(returned.result.attempts)] # "local_rss")
                 => (Asked("rss") \/ Asked("newsapi"))

\* C13 (SpecNews): get_headlines raises nothing, and when no source has an
\* answer it returns the one article "News service temporarily unavailable"
\* of the source "System".
C13_NeverRaises ==
    HeadlinesReturned
        => /\ ~returned.result.raised
           /\ EverySourceFails
                => /\ Len(returned.result.value) = 1
                   /\ returned.result.value[1].title = <<"N","e","w","s"," ","s","e","r","v","i","c","e"," ","t","e","m","p","o","r","a","r","i","l","y"," ","u","n","a","v","a","i","l","a","b","l","e">>
                   /\ returned.result.value[1].source = <<"S","y","s","t","e","m">>

\* a key, a place, and every source failing
C13_Witness ==
    /\ EverySourceFails
    /\ Truthy(returned.news.api_key)
    /\ returned.place.location = <<"Q","u","e","e","n","s",","," ","N","Y">>
    /\ returned.limit = 2
    /\ Len(returned.result.value) = 1
    /\ returned.result.value[1].source = <<"S","y","s","t","e","m">>

\* C14 (SpecDispatch): a process_message call awaits at most one call of a
\* data provider, get_weather or get_headlines, before it replies.
C14_OneProviderCall ==
    Replied => Len(returned.calls) <= 1

\* the entries of the users other than user_id, in their order
TurnsOfOthers(history, user_id) ==
    SelectSeq(history, LAMBDA entry : entry.user_id # user_id)

\* C15 (SpecThreads): with requests overlapping on the shared agent, the
\* history never holds more than max_history entries, a clear_history for
\* a user never fails, and when it returns the turns of the other users are
\* the ones the history held, each once and in their order.
C15_AtomicHistory ==
    [][/\ Len(conversation_history') <= max_history
       /\ (returned' # returned /\ returned'.op = "clear_history")
            => /\ ~returned'.raised
               /\ TurnsOfOthers(conversation_history', returned'.user_id)
                    = TurnsOfOthers(conversation_history, returned'.user_id)]_vars

WhitespaceOnly(s) == \A q \in 1..Len(s) : s[q] \in Whitespace

\* v is s without its leading and its trailing whitespace, s holding more
\* than whitespace
IsTrimOf(v, s) ==
    /\ v # << >>
    /\ v[1] \notin Whitespace
    /\ v[Len(v)] \notin Whitespace
    /\ \E k \in 0..(Len(s) - Len(v)) :
          /\ SubSeq(s, k + 1, k + Len(v)) = v
          /\ \A q \in 1..k : s[q] \in Whitespace
          /\ \A q \in (k + Len(v) + 1)..Len(s) : s[q] \in Whitespace

\* the length of s without its leading and its trailing whitespace
TrimmedLength(s) ==
    Len(s) - Cardinality({q \in 1..Len(s) : \A r \in 1..q : s[r] \in Whitespace})
           - Cardinality({q \in 1..Len(s) : \A r \in q..Len(s) : s[r] \in Whitespace})

\* C18 (SpecValidate): validate_message raises ValidationError for None, for
\* a value that is not a string, for an empty or whitespace-only string and
\* for a string longer, once trimmed, than max_length (MAX_MESSAGE_LENGTH
\* when none is given); for every other input it returns True with the
\* message trimmed.
C18_ValidateMessage ==
    returned.op = "validate_message"
        => IF \/ ~IsStr(returned.message)
              \/ WhitespaceOnly(returned.message)
              \/ TrimmedLength(returned.message)
                    > (IF returned.max_length = DefaultLength THEN MAX_MESSAGE_LENGTH
                       ELSE returned.max_length.value)
           THEN /\ returned.result.raised
                /\ returned.result.value = "ValidationError"
           ELSE /\ ~returned.result.raised
                /\ returned.result.value[1] = TRUE
                /\ IsTrimOf(returned.result.value[2], returned.message)

\* a padded message of just the greatest length, returned without the padding
C18_Witness ==
    /\ returned.op = "validate_message"
    /\ returned.message = <<"\t", "\n">> \o Repeat("a", MAX_MESSAGE_LENGTH) \o <<" ">>
    /\ returned.max_length = DefaultLength
    /\ returned.result = Return(<<TRUE, Repeat("a", MAX_MESSAGE_LENGTH)>>)

AllAllowed(s) == \A q \in 1..Len(s) : IsAlnum(s[q]) \/ s[q] = "-" \/ s[q] = "_"

\* C19 (SpecValidate), as stated: validate_user_id succeeds only for an id
\* made of alphanumeric characters, dashes and underscores alone and at most
\* 255 characters long.
C19_OnlyAllowedCharacters ==
    (returned.op = "validate_user_id" /\ ~returned.result.raised)
        => /\ IsStr(returned.user_id)
           /\ AllAllowed(returned.user_id)
           /\ Len(returned.user_id) <= MAX_USER_ID_LENGTH

\* C19 (SpecValidate): validate_user_id succeeds exactly for a string that,
\* without its leading and trailing whitespace, is not empty, is at most
\* 255 characters long and is made of alphanumeric characters, dashes and
\* underscores alone, and it returns True with the id trimmed; for every
\* other input it raises ValidationError.
C19_ValidateUserId ==
    returned.op = "validate_user_id"
        => IF /\ IsStr(returned.user_id)
              /\ ~WhitespaceOnly(returned.user_id)
              /\ TrimmedLength(returned.user_id) <= MAX_USER_ID_LENGTH
              /\ \A q \in 1..Len(returned.user_id) :
                    AllAllowed(<<returned.user_id[q]>>)
                       \/ (\/ \A r \in 1..q : returned.user_id[r] \in Whitespace
                           \/ \A r \in q..Len(returned.user_id) :
                                 returned.user_id[r] \in Whitespace)
           THEN /\ ~returned.result.raised
                /\ returned.result.value[1] = TRUE
                /\ IsTrimOf(returned.result.value[2], returned.user_id)
           ELSE /\ returned.result.raised
                /\ returned.result.value = "ValidationError"

\* an id of 255 letters between whitespace, 257 characters in all: accepted
C19_Witness ==
    /\ returned.op = "validate_user_id"
    /\ returned.user_id = <<" ">> \o Repeat("a", MAX_USER_ID_LENGTH) \o <<" ">>
    /\ returned.result = Return(<<TRUE, Repeat("a", MAX_USER_ID_LENGTH)>>)

\* the message and the user id the body stands for
MessageOf(data) == IF EmptyBody(data) \/ data.message = Absent THEN << >> ELSE data.message

UserIdOf(data) ==
    IF EmptyBody(data) \/ data.user_id = Absent THEN <<"d","e","f","a","u","l","t">> ELSE data.user_id

\* the message is not a string, is empty or whitespace-only, or is too long
BadMessage(m) ==
    \/ ~IsStr(m)
    \/ WhitespaceOnly(m)
    \/ TrimmedLength(m) > MAX_MESSAGE_LENGTH

\* the user id is not a string, is empty, is too long or holds a character
\* that is not allowed
BadUserId(u) ==
    \/ ~IsStr(u)
    \/ WhitespaceOnly(u)
    \/ TrimmedLength(u) > MAX_USER_ID_LENGTH
    \/ \E v \in {Strip(u)} : ~AllAllowed(v)

\* C16 (SpecWeb): a POST /api/chat whose message or user id fails validation
\* is answered 400, without a call of process_message and with the history
\* and the status of the agent as they were.
C16_RejectedBeforeDispatch ==
    [][(/\ returned' # returned
        /\ returned'.op = "chat"
        /\ BadMessage(MessageOf(returned'.body)) \/ BadUserId(UserIdOf(returned'.body)))
          => /\ returned'.answered
             /\ returned'.code = 400
             /\ UNCHANGED <<status, conversation_history, calls>>]_vars

\* a good message with a user id that holds a space, refused while the
\* status is "error" and the history holds a turn
C16_Witness ==
    /\ returned.op = "chat"
    /\ returned.answered
    /\ returned.code = 400
    /\ ~EmptyBody(returned.body)
    /\ returned.body.message = <<" ","H","e","l","l","o"," ">>
    /\ returned.body.user_id = <<"u","s","e","r"," ","n","a","m","e">>
    /\ returned.status_before = "error"
    /\ status = "error"
    /\ returned.before # << >>
    /\ conversation_history = returned.before

\* keyword is a substring of the lowercased message
Has(message, keyword) == Contains(Lower(message), keyword)

\* the predicates of the six rules, in the order of the list
RulePredicates(m) ==
    << Has(m, <<"w","e","a","t","h","e","r">>) /\ Has(m, <<"j","o","k","e">>),
       Has(m, <<"w","e","a","t","h","e","r">>) \/ Has(m, <<"f","o","r","e","c","a","s","t">>) \/ Has(m, <<"t","e","m","p","e","r","a","t","u","r","e">>),
       Has(m, <<"j","o","k","e">>) \/ Has(m, <<"f","u","n","n","y">>) \/ Has(m, <<"h","u","m","o","r">>) \/ Has(m, <<"l","a","u","g","h">>),
       Has(m, <<"h","e","l","l","o">>) \/ Has(m, <<"h","i">>) \/ Has(m, <<"h","e","y">>) \/ Has(m, <<"g","r","e","e","t","i","n","g","s">>),
       Has(m, <<"h","e","l","p">>) \/ Has(m, <<"c","o","m","m","a","n","d","s">>) \/ Has(m, <<"w","h","a","t"," ","c","a","n"," ","y","o","u"," ","d","o">>),
       Has(m, <<"n","e","w","s">>) \/ Has(m, <<"h","e","a","d","l","i","n","e","s">>) \/ Has(m, <<"c","u","r","r","e","n","t"," ","e","v","e","n","t","s">>) >>

\* k is the first rule whose predicate holds of m; 0 when none holds
IsFirstMatch(k, m) ==
    /\ k # 0 => RulePredicates(m)[k]
    /\ \A j \in 1..6 : RulePredicates(m)[j] => (k # 0 /\ k <= j)

Among(text, texts) == \E i \in 1..Len(texts) : texts[i] = text

\* C17 (SpecDispatch): the message given to _generate_response is answered
\* by the first rule of the list whose predicate it satisfies, and by no
\* later one: the text, the response type and the providers called are
\* those of that rule; when no rule matches the text is one of the default
\* responses and there is no response type.
C17_FirstMatchingRule ==
    Replied
        => /\ IsFirstMatch(returned.rule, returned.effective)
           /\ returned.rule \in {1, 2}
                => \A i \in 1..Len(returned.calls) : returned.calls[i] = "get_weather"
           /\ returned.rule \in {0, 3, 4, 5} => returned.calls = << >>
           /\ returned.rule = 6
                => \A i \in 1..Len(returned.calls) : returned.calls[i] = "get_headlines"
           /\ Succeeded
                => /\ returned.rule \in {1, 2} => returned.value.metadata.type = "weather"
                   /\ returned.rule = 3 => Among(returned.value.content, GENERAL_JOKES)
                   /\ returned.rule = 4 => Among(returned.value.content, GREETINGS)
                   /\ returned.rule = 5 => returned.value.content = HELP_TEXT
                   /\ returned.rule = 6 => returned.value.metadata.type = "news"
                   /\ returned.rule = 0
                        => /\ Among(returned.value.content, DEFAULT_RESPONSES)
                           /\ returned.value.metadata = << >>
                   /\ returned.rule \in {3, 4, 5} => returned.value.metadata = << >>

\* a message that satisfies the predicates of the first three rules,
\* answered by the first with one call of the weather service
C17_Witness ==
    /\ Succeeded
    /\ returned.effective = M_WeatherJokeBrooklyn
    /\ RulePredicates(returned.effective)[2]
    /\ RulePredicates(returned.effective)[3]
    /\ returned.rule = 1
    /\ returned.calls = <<"get_weather">>
    /\ returned.value.metadata.type = "weather"

Formatted == returned.op = "_format_location_name"

\* word with its first character in upper case and the others in lower case
FirstUpper(word) ==
    << >> \o [i \in 1..Len(word) |->
                IF i = 1 THEN UpperChar(word[i]) ELSE LowerChar(word[i])]

\* the value is the segments of the location, the words of each a space
\* apart and as `make` makes them, with ", " between the segments
SegmentWise(make(_)) ==
    LET parts == Split(returned.location, ",")
        words(i) == SplitWords(parts[i])
        segment(i) == Join(<< >> \o [j \in 1..Len(words(i)) |-> make(words(i)[j])], <<" ">>)
    IN  returned.value = Join(<< >> \o [i \in 1..Len(parts) |-> segment(i)], <<","," ">>)

\* every spelling of a gazetteer place gives the display name of the place
SameDisplayName ==
    (Formatted /\ returned.place # 0)
        => /\ returned.value = _format_location_name(GazetteerNames[returned.place])
           /\ returned.value = GazetteerDisplay[returned.place]
           /\ returned.place = 3 => returned.value = <<"Q","u","e","e","n","s",","," ","N","Y">>

\* C20 (SpecFormat), as stated: a place the gazetteer does not have comes
\* back with each of its comma-separated segments in title case.
C20_TitleCased ==
    /\ SameDisplayName
    /\ (Formatted /\ returned.place = 0) => SegmentWise(Title)

\* C20 (SpecFormat): "queens", "Queens, NY" and "queens,ny" give the same
\* display name, and so does every spelling of a gazetteer place that
\* differs in letter case, in the whitespace around it, in a state after a
\* comma or in the whitespace after that comma; a place the gazetteer does
\* not have comes back with the words of each comma-separated segment a
\* space apart, each word with its first character in upper case and the
\* others in lower case, the segments joined by ", ".
C20_FormatLocationName ==
    /\ SameDisplayName
    /\ (Formatted /\ returned.place = 0) => SegmentWise(FirstUpper)

\* QUEENS followed by a comma, a tab, a space and NJ, whitespace around
C20_Witness ==
    /\ Formatted
    /\ returned.place = 3
    /\ returned.location = <<" ","Q","U","E","E","N","S">> \o <<",", "\t", " ">> \o <<"N","J">> \o <<"\t", "\n">>
    /\ returned.value = <<"Q","u","e","e","n","s",","," ","N","Y">>

\* the entries of `history` that get_conversation_history is to give for
\* user_id: those of the user, all of them when no user is named
EntriesFor(history, user_id) ==
    IF user_id = None THEN history
    ELSE SelectSeq(history, LAMBDA entry : entry.user_id = user_id)

\* C21 (Spec): get_conversation_history(user_id, limit) returns the entries
\* of the user in the order of the buffer, all entries when no user is
\* named, and of these the `limit` most recent ones when a limit is given;
\* the buffer is as it was.
C21_HistoryOfUser ==
    returned.op = "get_conversation_history"
        => /\ returned.value =
                IF returned.limit.given
                THEN LastN(EntriesFor(returned.before, returned.user_id), returned.limit.value)
                ELSE EntriesFor(returned.before, returned.user_id)
           /\ conversation_history = returned.before

\* C22 (Spec): clear_history without a user id leaves the history empty and
\* the status as it was; after every clear_history the deque still has the
\* capacity max_history; and every append, whatever clears went before it,
\* leaves the last max_history entries of the history before it followed by
\* the new entry.
C22_ClearAllKeepsBound ==
    [][returned' # returned =>
          /\ (returned'.op = "clear_history" /\ ~Truthy(returned'.user_id))
               => /\ conversation_history' = << >>
                  /\ status' = status
          /\ returned'.op = "clear_history" => deque_maxlen' = max_history
          /\ Succeeded'
               => /\ Len(conversation_history') <= max_history
                  /\ conversation_history' =
                        LastN(conversation_history \o <<LastEntry'>>, max_history)
                  /\ deque_maxlen' = max_history]_vars

\* the turns of two users cleared at once while the status is "error"
C22_Witness ==
    /\ returned.op = "clear_history"
    /\ returned.user_id = None
    /\ \E i, j \in 1..Len(returned.before) :
          returned.before[i].user_id = U1 /\ returned.before[j].user_id = U2
    /\ conversation_history = << >>
    /\ deque_maxlen = max_history
    /\ status = "error"

\* the sources attempted by the get_weather call that returned last, in order
Attempted == returned.result.attempts

\* source is among them
Tried(source) == \E i \in 1..Len(Attempted) : Attempted[i] = source

\* C23 (SpecWeather): get_weather attempts its sources in the order
\* OpenWeatherMap, wttr.in, static fallback, none of them twice:
\* OpenWeatherMap exactly when a key is configured, wttr.in exactly when
\* OpenWeatherMap was skipped or did not answer with a readable status 200,
\* the fallback exactly when wttr.in was attempted and gave no snapshot; the
\* snapshot returned is the one of the source attempted last.
C23_SourcesInOrder ==
    returned.op = "get_weather" =>
        LET keyed == Truthy(returned.api_key)
            primary_ok == keyed /\ returned.net.primary.kind = "ok"
            coords == ResolveCoordinates(returned.city, returned.lat, returned.lon)
            secondary == _fetch_from_wttr(returned.city, coords[1], coords[2],
                                          returned.net.secondary)
        IN  /\ \E k \in 0..3 :
                  \E keep \in [1..k -> 1..3] :
                      /\ \A i \in 1..(k - 1) : keep[i] < keep[i + 1]
                      /\ Attempted = [i \in 1..k |->
                            <<"openweathermap", "wttr.in", "fallback">>[keep[i]]]
            /\ Attempted # << >>
            /\ Tried("openweathermap") = keyed
            /\ Tried("wttr.in") = ~primary_ok
            /\ Tried("fallback") = (~primary_ok /\ secondary.raised)
            /\ (returned.net.secondary.kind # "ok" /\ ~primary_ok) => Tried("fallback")
            /\ returned.result.value =
                  IF primary_ok THEN _parse_weather_data(returned.net.primary, returned.city)
                  ELSE IF secondary.raised THEN _get_fallback_weather
                  ELSE secondary.value

\* a key is configured, OpenWeatherMap answers 500, wttr.in answers: the two
\* were asked in this order and the fallback was not used
C23_Witness ==
    /\ returned.op = "get_weather"
    /\ Truthy(returned.api_key)
    /\ returned.net.primary.kind = "http_error"
    /\ returned.net.secondary.kind = "ok"
    /\ Attempted = <<"openweathermap", "wttr.in">>
    /\ returned.result.value # _get_fallback_weather

\* a feed that was read and parsed and has an entry within the limit
Yields(feed, limit) == feed.kind = "ok" /\ feed.entries # << >> /\ limit > 0

\* C24 (SpecNews): _fetch_from_rss asks the feeds of its list in their
\* order, each position once, up to and including the first feed that
\* yields an article, whose articles it returns; a feed that raises, does
\* not parse or has no entries is passed over; when no feed yields an
\* article every feed was asked and the call raises.
C24_FeedsInOrder ==
    returned.op = "_fetch_from_rss" =>
        LET feeds == returned.feeds
            yielding == {i \in 1..Len(feeds) : Yields(feeds[i], returned.limit)}
            last == IF yielding = {} THEN Len(feeds) ELSE Min(yielding)
        IN  /\ returned.result.contacted = [k \in 1..last |-> k]
            /\ returned.result.raised = (yielding = {})
            /\ yielding # {} =>
                  /\ returned.result.value = Take(feeds[last].entries, returned.limit)
                  /\ returned.result.value # << >>

\* the first feed raises, the second answers, the third is not asked
C24_Witness ==
    /\ returned.op = "_fetch_from_rss"
    /\ returned.limit = 1
    /\ Len(returned.feeds) = 3
    /\ returned.feeds[1].kind = "error"
    /\ returned.feeds[2].kind = "ok"
    /\ returned.feeds[3].kind = "ok"
    /\ returned.result.contacted = <<1, 2>>
    /\ returned.result.value = <<Entry(1)>>

\* the cleaned candidate of pattern i in the call that returned last
Candidate(i) == CleanCandidate(returned.groups[i])

\* pattern i matched, and its candidate is longer than two characters and
\* no stopword
Yielding(i) ==
    /\ returned.groups[i] # None
    /\ Len(Candidate(i)) > 2
    /\ Candidate(i) \notin { <<"t","h","e">>, <<"a">>, <<"a","n">>, <<"w","h","a","t">>, <<"h","o","w">>, <<"t","e","l","l">>,
                             <<"m","e">>, <<"i","s">>, <<"i","t">> }

\* C25 (SpecParse): parse_location_from_message returns the cleaned
\* candidate of the first of its four patterns, in the listed order, whose
\* candidate is longer than 2 characters and no stopword, and None exactly
\* when no pattern has such a candidate.
C25_FirstAcceptablePattern ==
    returned.op = "parse_location_from_message" =>
        /\ (returned.value = None) = (\A i \in 1..4 : ~Yielding(i))
        /\ \A i \in 1..4 :
              (Yielding(i) /\ \A j \in 1..(i - 1) : ~Yielding(j))
                 => returned.value = Candidate(i)

\* "NYC weather in LA?": the second pattern finds "la", too short, and the
\* third one finds "nyc"
C25_Witness ==
    /\ returned.op = "parse_location_from_message"
    /\ returned.message = <<"N","Y","C"," ","w","e","a","t","h","e","r"," ","i","n"," ","L","A","?">>
    /\ returned.groups[1] = None
    /\ Candidate(2) = <<"l","a">>
    /\ ~Yielding(2)
    /\ Yielding(3)
    /\ returned.value = <<"n","y","c">>

\* C26 (Spec): the message of the entry a call appends is the text the
\* caller passed, whatever the context argument is.
C26_CallerTextStored ==
    Succeeded => LastEntry.message = returned.message

\* C27 (Spec): a process_message call that ends with the error reply has
\* not changed the history: neither the step that starts the call nor the
\* step that ends it with the error reply appends, removes or moves an
\* entry.
C27_ErrorLeavesHistory ==
    [][/\ (calls' # calls /\ status' = "processing")
            => conversation_history' = conversation_history
       /\ (returned' # returned /\ Replied' /\ returned'.failed)
            => /\ conversation_history' = conversation_history
               /\ returned'.value.type = "error"]_vars

\* a call failed on a history of two turns, which are still there
C27_Witness ==
    /\ Replied
    /\ returned.failed
    /\ returned.value.type = "error"
    /\ Len(returned.before) = 2
    /\ conversation_history = returned.before

\* no process_message call is under way
NoneInFlight(in_flight) == \A t \in Threads : in_flight[t].pc # "running"

\* C28 (Spec): the status is always "idle", "processing" or "error"; it is
\* not "processing" when no process_message call is under way; the end of a
\* call leaves it "idle" when the call succeeded and "error" when it failed,
\* and it keeps this value until the next call starts.
C28_StatusOfLastCall ==
    /\ status = "idle"
    /\ [][/\ status' \in {"idle", "processing", "error"}
          /\ NoneInFlight(calls') => status' # "processing"
          /\ (returned' # returned /\ Replied')
                => status' = IF returned'.failed THEN "error" ELSE "idle"
          /\ calls' = calls => status' = status]_vars

\* the second call of a session succeeded, no call is under way and the
\* status is "idle"
C28_Witness ==
    /\ Succeeded
    /\ NoneInFlight(calls)
    /\ status = "idle"
    /\ returned.value.timestamp = 1
    /\ Len(conversation_history) = 2

\* C29 (SpecThreads): while a process_message call is under way the status
\* is "processing".
C29_ProcessingWhileInFlight ==
    ~NoneInFlight(calls) => status = "processing"

\* C30 (SpecNews): get_headlines with a limit of 1 or more returns a list
\* that is not empty, whatever the sources answer.
C30_NeverEmpty ==
    (HeadlinesReturned /\ returned.limit >= 1)
        => /\ ~returned.result.raised
           /\ returned.result.value # << >>
====
